---- MODULE Spec2Model ----
(***************************************************************************)
(* A model of the consul configuration wrapper: the v3 Client of           *)
(* client.go (PullOrPush, the watch list, the background refresh loop,     *)
(* Stop), the scalar parser defaultParser, the registered well-known type  *)
(* parsers of custom.go / watch_types.go, and the consul KV adapter.       *)
(*                                                                         *)
(* Byte strings are sequences of one-character strings, so that trimming   *)
(* and parsing are computed character by character as strconv does.        *)
(***************************************************************************)
EXTENDS Integers, Sequences, FiniteSets, TLC

(***************************************************************************)
(* Bounds of the model.                                                    *)
(***************************************************************************)
\* PullOrPush calls the foreground caller makes in one behaviour
MaxCalls == 2
\* writes of the external writer in one behaviour
MaxExt == 1
\* store operations (Get or Put) that fail in one behaviour
MaxFail == 1

(***************************************************************************)
(* Byte strings.                                                           *)
(***************************************************************************)
Digits == {"0", "1", "2", "3", "4", "5", "6", "7", "8", "9"}

DigitVal(c) ==
  CASE c = "0" -> 0 [] c = "1" -> 1 [] c = "2" -> 2 [] c = "3" -> 3
    [] c = "4" -> 4 [] c = "5" -> 5 [] c = "6" -> 6 [] c = "7" -> 7
    [] c = "8" -> 8 [] c = "9" -> 9

\* the white space bytes.TrimSpace removes (the model's strings use these two)
IsSpace(c) == c \in {" ", "\n"}

Drop(s, n) == SubSeq(s, n + 1, Len(s))

RECURSIVE TrimLeft(_)
TrimLeft(s) ==
  IF s # <<>> /\ IsSpace(Head(s)) THEN TrimLeft(Tail(s)) ELSE s

RECURSIVE TrimRight(_)
TrimRight(s) ==
  IF s # <<>> /\ IsSpace(s[Len(s)]) THEN TrimRight(SubSeq(s, 1, Len(s) - 1)) ELSE s

\* bytes.TrimSpace
TrimSpace(s) == TrimRight(TrimLeft(s))

AllDigits(s) == \A i \in 1..Len(s) : s[i] \in Digits

RECURSIVE DecValue(_)
DecValue(s) ==
  IF s = <<>> THEN 0 ELSE 10 * DecValue(SubSeq(s, 1, Len(s) - 1)) + DigitVal(s[Len(s)])

\* the longest digit string the parsers of the model are given; every value
\* of at most this many digits fits the 32 and 64 bit types
MaxDigits == 5

\* strconv's range limit 1 << (bitSize-1) (signed) for the widths whose limit
\* a string of MaxDigits digits can pass; wider types never overflow here
SignedCutoff(bits) == IF bits = 8 THEN 128 ELSE IF bits = 16 THEN 32768 ELSE 1000000

UnsignedCutoff(bits) == IF bits = 8 THEN 256 ELSE IF bits = 16 THEN 65536 ELSE 1000000

\* strconv.ParseUint(s, 10, bits): no sign, digits only, range checked
ParseUint(s, bits) ==
  IF s = <<>> \/ ~AllDigits(s) THEN [ok |-> FALSE, n |-> 0]
  ELSE IF Len(s) > MaxDigits \/ DecValue(s) >= UnsignedCutoff(bits)
       THEN [ok |-> FALSE, n |-> 0]
       ELSE [ok |-> TRUE, n |-> DecValue(s)]

\* strconv.ParseInt(s, 10, bits): optional sign, then digits, range checked
ParseInt(s, bits) ==
  IF s = <<>> THEN [ok |-> FALSE, n |-> 0]
  ELSE LET neg  == Head(s) = "-"
           body == IF Head(s) \in {"+", "-"} THEN Tail(s) ELSE s
       IN IF body = <<>> \/ ~AllDigits(body) \/ Len(body) > MaxDigits
          THEN [ok |-> FALSE, n |-> 0]
          ELSE LET un == DecValue(body)
               IN IF (~neg /\ un >= SignedCutoff(bits)) \/ (neg /\ un > SignedCutoff(bits))
                  THEN [ok |-> FALSE, n |-> 0]
                  ELSE [ok |-> TRUE, n |-> IF neg THEN 0 - un ELSE un]

\* strconv.Atoi
Atoi(s) == ParseInt(s, 64)

\* strconv.ParseBool
ParseBool(s) ==
  IF s \in {<<"1">>, <<"t">>, <<"T">>, <<"t","r","u","e">>, <<"T","R","U","E">>,
            <<"T","r","u","e">>}
  THEN [ok |-> TRUE, n |-> 1]
  ELSE IF s \in {<<"0">>, <<"f">>, <<"F">>, <<"f","a","l","s","e">>,
                 <<"F","A","L","S","E">>, <<"F","a","l","s","e">>}
       THEN [ok |-> TRUE, n |-> 0]
       ELSE [ok |-> FALSE, n |-> 0]

IndexOf(s, c) ==
  IF \E i \in 1..Len(s) : s[i] = c
  THEN CHOOSE i \in 1..Len(s) : s[i] = c /\ \A j \in 1..(i - 1) : s[j] # c
  ELSE 0

RECURSIVE StripZeros(_)
StripZeros(s) ==
  IF s # <<>> /\ s[Len(s)] = "0" THEN StripZeros(SubSeq(s, 1, Len(s) - 1)) ELSE s

\* strconv.ParseFloat on plain decimals: [sign] digits [. digits]; the value
\* is the integer n scaled by 10^-e, with trailing zeros of the fraction dropped
ParseFloat(s) ==
  IF s = <<>> THEN [ok |-> FALSE, n |-> 0, e |-> 0]
  ELSE LET neg  == Head(s) = "-"
           body == IF Head(s) \in {"+", "-"} THEN Tail(s) ELSE s
           dot  == IndexOf(body, ".")
           ip   == IF dot = 0 THEN body ELSE SubSeq(body, 1, dot - 1)
           fp   == IF dot = 0 THEN <<>> ELSE StripZeros(Drop(body, dot))
           raw  == IF dot = 0 THEN <<>> ELSE Drop(body, dot)
       IN IF ~AllDigits(ip) \/ ~AllDigits(raw) \/ (ip = <<>> /\ raw = <<>>)
             \/ Len(ip) + Len(fp) > MaxDigits
          THEN [ok |-> FALSE, n |-> 0, e |-> 0]
          ELSE LET m == DecValue(ip \o fp)
               IN [ok |-> TRUE, n |-> IF neg THEN 0 - m ELSE m, e |-> Len(fp)]

UnitSeconds(u) == CASE u = "s" -> 1 [] u = "m" -> 60 [] u = "h" -> 3600

RECURSIVE DigitPrefix(_)
DigitPrefix(s) ==
  IF s # <<>> /\ Head(s) \in Digits THEN <<Head(s)>> \o DigitPrefix(Tail(s)) ELSE <<>>

\* the groups of time.ParseDuration: (digits unit)+ with unit s, m or h;
\* n is the sum in seconds
RECURSIVE DurationGroups(_)
DurationGroups(s) ==
  LET num == DigitPrefix(s)
      rest == Drop(s, Len(num))
  IN IF num = <<>> \/ Len(num) > MaxDigits \/ rest = <<>> \/ Head(rest) \notin {"s", "m", "h"}
     THEN [ok |-> FALSE, n |-> 0]
     ELSE IF Tail(rest) = <<>>
          THEN [ok |-> TRUE, n |-> DecValue(num) * UnitSeconds(Head(rest))]
          ELSE LET more == DurationGroups(Tail(rest))
               IN IF more.ok
                  THEN [ok |-> TRUE, n |-> DecValue(num) * UnitSeconds(Head(rest)) + more.n]
                  ELSE [ok |-> FALSE, n |-> 0]

\* time.ParseDuration: [sign] then "0" or groups; the empty string is an error
ParseDuration(s) ==
  IF s = <<>> THEN [ok |-> FALSE, n |-> 0]
  ELSE LET neg  == Head(s) = "-"
           body == IF Head(s) \in {"+", "-"} THEN Tail(s) ELSE s
       IN IF body = <<"0">> THEN [ok |-> TRUE, n |-> 0]
          ELSE IF body = <<>> THEN [ok |-> FALSE, n |-> 0]
          ELSE LET g == DurationGroups(body)
               IN IF g.ok THEN [ok |-> TRUE, n |-> IF neg THEN 0 - g.n ELSE g.n]
                  ELSE [ok |-> FALSE, n |-> 0]

(***************************************************************************)
(* Values.  A value carries its Go type t; n is the number of a numeric    *)
(* type (1/0 for a bool, seconds for a duration, the scaled integer of a   *)
(* float), e the number of decimals of a float and s the bytes of a string *)
(* or byte slice.                                                          *)
(***************************************************************************)
Val(t, n, s, e) == [t |-> t, n |-> n, s |-> s, e |-> e]

\* the nil interface value a parser returns beside an error
NilVal == Val("nil", 0, <<>>, 0)

\* the kinds defaultParser has a case for
ParsedKinds == {"string", "float32", "float64", "int", "int16", "int32", "int64",
                "uint", "uint32", "uint64", "bool", "bytes"}

\* scalar kinds that reach the default branch of defaultParser
UnparsedKinds == {"int8", "uint8", "uint16", "map", "intslice"}

\* the types the init functions register in wellKnowTypeParsers
WellKnownKinds == {"time.Duration", "String", "Duration", "Int", "Toml"}

\* the registered types whose pointer implements Updatable
WatchableKinds == {"String", "Duration", "Int", "Toml"}

LeafKinds == ParsedKinds \cup UnparsedKinds \cup WellKnownKinds

\* the types whose reflect.Kind is Struct: plain structs and the cells
\* String, Duration, Int and Toml, each a struct around an atomic.Value
StructKinds == {"struct", "String", "Duration", "Int", "Toml"}

\* a pullOrPush that looks at the kind before it looks at the registry
dispatchStructFirst(kind) ==
  IF kind \in StructKinds THEN "struct"
  ELSE IF kind \in WellKnownKinds THEN "wellknown" ELSE "default"

\* pullOrPush after the push: the registered parser of the exact type comes
\* first, then the recursion into a struct, then defaultParser
dispatch(kind) ==
  IF kind \in WellKnownKinds THEN "wellknown"
  ELSE IF kind \in StructKinds THEN "struct" ELSE "default"

\* the zero value of a field of the kind
Zero(kind) == Val(kind, 0, <<>>, 0)

BitSize(kind) ==
  CASE kind \in {"int8", "uint8"} -> 8
    [] kind \in {"int16", "uint16"} -> 16
    [] kind \in {"int32", "uint32", "float32"} -> 32
    [] OTHER -> 64

\* Client.defaultParser: the value and the error ("nil" for none) it returns
\* for a destination of the kind and the raw content
defaultParser(kind, content) ==
  LET value == TrimSpace(content)
      int   == ParseInt(value, BitSize(kind))
      uint  == ParseUint(value, BitSize(kind))
      flt   == ParseFloat(value)
      bool  == ParseBool(value)
  IN CASE kind = "string" -> [val |-> Val("string", 0, value, 0), err |-> "nil"]
       [] kind \in {"float32", "float64"} ->
            IF Len(value) = 0 THEN [val |-> Val(kind, 0, <<>>, 0), err |-> "nil"]
            ELSE IF flt.ok THEN [val |-> Val(kind, flt.n, <<>>, flt.e), err |-> "nil"]
                 ELSE [val |-> Val(kind, 0, <<>>, 0), err |-> "parse"]
       [] kind \in {"int", "int16", "int32", "int64"} ->
            IF Len(value) = 0 THEN [val |-> Val(kind, 0, <<>>, 0), err |-> "nil"]
            ELSE IF int.ok THEN [val |-> Val(kind, int.n, <<>>, 0), err |-> "nil"]
                 ELSE [val |-> Val(kind, 0, <<>>, 0), err |-> "parse"]
       [] kind \in {"uint", "uint32"} ->
            IF Len(value) = 0 THEN [val |-> Val(kind, 0, <<>>, 0), err |-> "nil"]
            ELSE IF uint.ok THEN [val |-> Val(kind, uint.n, <<>>, 0), err |-> "nil"]
                 ELSE [val |-> Val(kind, 0, <<>>, 0), err |-> "parse"]
       [] kind = "uint64" ->
            \* "return 0, nil": the untyped constant becomes an int
            IF Len(value) = 0 THEN [val |-> Val("int", 0, <<>>, 0), err |-> "nil"]
            ELSE IF uint.ok THEN [val |-> Val(kind, uint.n, <<>>, 0), err |-> "nil"]
                 ELSE [val |-> Val(kind, 0, <<>>, 0), err |-> "parse"]
       [] kind = "bool" ->
            IF bool.ok THEN [val |-> Val("bool", bool.n, <<>>, 0), err |-> "nil"]
            ELSE [val |-> Val("bool", 0, <<>>, 0), err |-> "parse"]
       [] kind = "bytes" -> [val |-> Val("bytes", 0, value, 0), err |-> "nil"]
       [] kind = "intslice" -> [val |-> NilVal, err |-> "unsupported"]
       [] OTHER -> [val |-> NilVal, err |-> "unsupported"]

\* toml.LoadBytes on the documents of the model: the empty document is the
\* empty tree, "a=<integer>" is a tree with the key a, anything else is a
\* syntax error
LoadBytes(content) ==
  IF content = <<>> THEN [ok |-> TRUE, keys |-> <<>>, n |-> 0]
  ELSE IF Len(content) >= 3 /\ content[1] = "a" /\ content[2] = "="
          /\ Atoi(SubSeq(content, 3, Len(content))).ok
       THEN [ok |-> TRUE, keys |-> <<"a">>, n |-> Atoi(SubSeq(content, 3, Len(content))).n]
       ELSE [ok |-> FALSE, keys |-> <<>>, n |-> 0]

\* cells that ignore the parser's error and store what it returned
CellUpdateAnyway(kind, raw) ==
  CASE kind = "String" -> [ok |-> TRUE, val |-> Val("String", 0, raw, 0)]
    [] kind = "Duration" -> [ok |-> TRUE, val |-> Val("Duration", ParseDuration(raw).n, <<>>, 0)]
    [] kind = "Int" -> [ok |-> TRUE, val |-> Val("Int", Atoi(raw).n, <<>>, 0)]
    [] kind = "Toml" -> [ok |-> TRUE, val |-> Val("Toml", LoadBytes(raw).n, LoadBytes(raw).keys, 1)]

\* cells that store the bytes as they come
CellUpdateRaw(kind, raw) == [ok |-> TRUE, val |-> Val(kind, 0, raw, 0)]

\* String.Update / Duration.Update / Int.Update / Toml.Update: the value the
\* cell stores and whether the update succeeds (a failed update stores
\* nothing).  A Toml cell holds a tree (e = 1): its keys and the value of a.
CellUpdate(kind, raw) ==
  CASE kind = "String" -> [ok |-> TRUE, val |-> Val("String", 0, raw, 0)]
    [] kind = "Duration" ->
         LET d == ParseDuration(raw)
         IN [ok |-> d.ok, val |-> Val("Duration", d.n, <<>>, 0)]
    [] kind = "Int" ->
         LET i == Atoi(raw)
         IN [ok |-> i.ok, val |-> Val("Int", i.n, <<>>, 0)]
    [] kind = "Toml" ->
         LET t == LoadBytes(raw)
         IN [ok |-> t.ok, val |-> Val("Toml", t.n, t.keys, 1)]

\* the parsers registered for the well-known types: timeDuration of custom.go
\* and watchableString / watchableDuration / watchableInt of watch_types.go,
\* which update a fresh cell and return it with the update's error
wellKnownParser(kind, content) ==
  IF kind = "time.Duration"
  THEN LET d == ParseDuration(content)
       IN IF d.ok THEN [val |-> Val("time.Duration", d.n, <<>>, 0), err |-> "nil"]
          ELSE [val |-> Val("time.Duration", 0, <<>>, 0), err |-> "custom"]
  ELSE LET u == CellUpdate(kind, content)
       IN IF u.ok THEN [val |-> u.val, err |-> "nil"]
          ELSE [val |-> Zero(kind), err |-> "custom"]

(***************************************************************************)
(* Schemas.  A struct field has a Go name, a kind, the consul tag and, for *)
(* a struct, its fields.  The tag is kept as strings.Split(tag, ";") and   *)
(* SplitN(segment, ":", 2) leave it: a sequence of segments of one or two  *)
(* parts.                                                                  *)
(***************************************************************************)
Fld(name, kind, tag, sub) ==
  [name |-> name, kind |-> kind, tag |-> tag, exported |-> TRUE, sub |-> sub]

\* the unexported field v of String, Duration and Int
atomicValue == <<[name |-> "v", kind |-> "atomic.Value", tag |-> <<>>, exported |-> FALSE,
           sub |-> <<>>]>>

\* strings.ToLower on the option keys the model's tags use
ToLower(k) ==
  CASE k \in {"default", "Default", "DEFAULT"} -> "default"
    [] k \in {"name", "Name", "NAME"} -> "name"
    [] OTHER -> k

NoOpts == [hasName |-> FALSE, Name |-> "", hasDefault |-> FALSE, Default |-> <<>>]

\* makeTagOpts: the last default and the last name option of the tag win,
\* segments without a value and unknown keys are skipped
RECURSIVE makeTagOpts(_)
makeTagOpts(tag) ==
  IF tag = <<>> THEN NoOpts
  ELSE LET before == makeTagOpts(SubSeq(tag, 1, Len(tag) - 1))
           kv     == tag[Len(tag)]
       IN IF Len(kv) < 2 THEN before
          ELSE IF ToLower(kv[1]) = "default"
               THEN [before EXCEPT !.hasDefault = TRUE, !.Default = kv[2]]
               ELSE IF ToLower(kv[1]) = "name"
                    THEN [before EXCEPT !.hasName = TRUE, !.Name = kv[2]]
                    ELSE before

\* the normalizer option (go_case.ToDotSnakeCase by default) on the field
\* names of the model
normalizer(name) ==
  CASE name = "A" -> "a" [] name = "B" -> "b" [] name = "C" -> "c"
    [] name = "N" -> "n" [] OTHER -> name

\* Client.makeConsulPath: path.Join(pref, tag name or normalized field name);
\* a path is the sequence of its segments
makeConsulPath(pref, f) ==
  LET tagOpts == makeTagOpts(f.tag)
  IN Append(pref, IF tagOpts.hasName THEN tagOpts.Name ELSE normalizer(f.name))

\* the values pullOrPush is called with, in the order of its recursion over
\* the settable fields: the destination's path and kind and its struct tag
\* (hasTag is false for the root, whose structTag is nil)
RECURSIVE WalkFields(_, _)
WalkFields(pref, fields) ==
  IF fields = <<>> THEN <<>>
  ELSE LET f == Head(fields)
           p == makeConsulPath(pref, f)
           here == <<[path |-> p, kind |-> f.kind, hasTag |-> TRUE, tag |-> f.tag,
                      name |-> f.name]>>
       IN (IF ~f.exported THEN <<>>
           ELSE IF dispatch(f.kind) = "struct" THEN here \o WalkFields(p, f.sub)
                ELSE here)
          \o WalkFields(pref, Tail(fields))

\* the root path every call of the model passes to PullOrPush
Root == <<"some">>

Walk(fields) ==
  <<[path |-> Root, kind |-> "struct", hasTag |-> FALSE, tag |-> <<>>, name |-> ""]>>
  \o WalkFields(Root, fields)

(***************************************************************************)
(* The store behind consulKV.  A key is absent or holds bytes.             *)
(***************************************************************************)
Absent == [there |-> FALSE, v |-> <<>>]

Present(value) == [there |-> TRUE, v |-> value]

Segments == {"a", "b", "c", "n", "x"}

Keys == {Root} \cup {Append(Root, x) : x \in Segments}
        \cup {Root \o <<"n", x>> : x \in Segments}

\* a Get that loses the first byte of the value
kvGetShort(st, path) == IF st[path].there /\ st[path].v # <<>> THEN Tail(st[path].v) ELSE <<>>

\* consulKV.Get: nil for a missing pair, else the pair's value
kvGet(st, path) == IF st[path].there THEN st[path].v ELSE <<>>

\* consulKV.Put
kvPut(st, path, value) == [st EXCEPT ![path] = Present(value)]

(***************************************************************************)
(* The state.                                                              *)
(***************************************************************************)
VARIABLES
  env,        \* GROUP_NAME in the process environment: at process start, and now
  watch,      \* client.WatchGet: c.meta, the goroutine, its channel, the store's index
  opts,       \* Client.opts: onlyPull, disableListen, logger (set or nil)
  schema,     \* the fields of the struct type the caller passes
  store,      \* the consul KV store
  pc,         \* where the caller (fg) and the runWatch goroutine (bg) are
  calls,      \* PullOrPush calls started; call c fills the caller's c-th struct
  node,       \* pullOrPush: the destination being processed
  content,    \* pullOrPush: its local content
  result,     \* what the last PullOrPush call returned
  vals,       \* the field values of the caller's structs
  list,       \* Client.watch.list
  lock,       \* Client.watch.lock: its holder, or "free"
  idx,        \* updateWatch: the item of the range loop, per process
  raw,        \* updateWatch: its local raw, per process
  cancelled,  \* c.ctx is done (Stop was called, and has returned)
  crashed,    \* the process died of a panic
  nExt,       \* writes of the external writer so far
  nFail,      \* failed store operations so far
  hist        \* history: what the properties speak about

vars == <<env, watch, opts, schema, store, pc, calls, node, content, result, vals, list, lock,
          idx, raw, cancelled, crashed, nExt, nFail, hist>>

Procs == {"fg", "bg"}

\* GROUP_NAME is not set
NoEnv == [start |-> <<>>, now |-> <<>>]

\* WatchGet was not called: c.meta has no entry (meta = 0), there is no
\* goroutine, nothing was received from a channel; index is the store's index
NoWatch ==
  [ meta   |-> 0,        \* c.meta[key].LastIndex, 0 when the map has no entry
    pc     |-> "off",    \* the goroutine: "off", "top", "get", "check", "send"
    last   |-> 0,        \* its lastIndex
    kv     |-> [there |-> FALSE, v |-> <<>>],  \* its kv (there = FALSE: nil)
    qmeta  |-> 0,        \* its meta (0: nil)
    err    |-> FALSE,    \* its err # nil
    closed |-> FALSE,    \* close(ch) was called
    ch     |-> <<>>,     \* the pairs the caller received from the channel
    index  |-> 2,        \* the store's index of the last change
    fresh  |-> FALSE,    \* the key was absent when WatchGet was called
    put    |-> {} ]      \* the values Put since WatchGet was called

Nodes == Walk(schema)

NoHist ==
  [ init     |-> "mixed",\* the store at the start: "fresh" (no key of the struct
                         \* exists), "full" (every leaf's key exists) or "mixed"
    log      |-> <<>>,   \* the Gets and Puts of the PullOrPush traversals
    extKeys  |-> {},     \* the keys the external writer wrote
    nreg     |-> 0,      \* WatchItems registered so far
    appended |-> <<>>,   \* every WatchItem ever appended, in the order of the appends
    returned |-> {},     \* the calls that returned nil
    changed  |-> {},     \* watch items whose key the external writer wrote
                         \* after the registering call returned nil
    scope    |-> [p \in Procs |-> {}],  \* changed, as the running pass found it
    dirty    |-> [p \in Procs |-> {}],  \* keys written since the pass began
    missed   |-> [p \in Procs |-> {}],  \* items whose Get failed in the pass
    failed   |-> [p \in Procs |-> {}],  \* items whose Get or Update failed in it
    sunk     |-> [p \in Procs |-> {}],  \* items whose failure the logger received
    visited  |-> [p \in Procs |-> {}],  \* items the running pass has visited
    late     |-> FALSE,  \* the loop acted after Stop returned
    npass    |-> [c \in 1..MaxCalls |-> 0],  \* the passes each call has begun
    covered  |-> {},     \* the calls whose pass visited every item of the list
    len      |-> [p \in Procs |-> 0],   \* the length of the list when the pass began
    refreshed |-> {},    \* <<call, node>>: a pass has stored into the cell
    stale    |-> {},     \* <<call, node>>: the call then assigned the cell another
                         \* value, parsed from what it had read before
    pre      |-> {} ]    \* <<call, node>>: the caller set the field before the call

\* the state NewClient leaves, for a set of option records and a set of
\* pairs of a struct type and a store it meets
InitOver(Options, Worlds) ==
  /\ env = NoEnv
  /\ watch = NoWatch
  /\ opts \in Options
  /\ \E w \in Worlds : schema = w[1] /\ store = w[2]
  /\ pc = [p \in Procs |-> IF p = "fg" THEN "idle"
                           ELSE IF opts.disableListen THEN "off" ELSE "select"]
  /\ calls = 0
  /\ node = 0
  /\ content = <<>>
  /\ result = "none"
  /\ vals = [c \in 1..MaxCalls |-> [i \in 1..Len(Walk(schema)) |-> Zero(Walk(schema)[i].kind)]]
  /\ list = <<>>
  /\ lock = "free"
  /\ idx = [p \in Procs |-> 0]
  /\ raw = [p \in Procs |-> <<>>]
  /\ cancelled = FALSE
  /\ crashed = FALSE
  /\ nExt = 0
  /\ nFail = 0
  /\ hist = [NoHist EXCEPT !.init =
               IF \A i \in 1..Len(Walk(schema)) : ~store[Walk(schema)[i].path].there
               THEN "fresh"
               ELSE IF \A i \in 1..Len(Walk(schema)) :
                         Walk(schema)[i].kind # "struct" => store[Walk(schema)[i].path].there
                    THEN "full" ELSE "mixed"]

(***************************************************************************)
(* PullOrPush: the caller's goroutine.                                     *)
(***************************************************************************)
\* the condition under which pullOrPush pushes: not pull-only, empty content,
\* and a destination that is a well-known type or no struct
needsPut(onlyPull, c, kind) ==
  ~onlyPull /\ Len(c) = 0 /\ (kind \in WellKnownKinds \/ kind \notin StructKinds)

\* a push that forgets the tag's default
putContentNoDefault(n, c) == c

\* the content pullOrPush puts: the tag's default if the field has one,
\* else the content it got
putContent(n, c) ==
  IF n.hasTag /\ makeTagOpts(n.tag).hasDefault THEN makeTagOpts(n.tag).Default ELSE c

\* a lock that lets everybody in
LockAlways(holder) == TRUE

\* sync.Mutex.Lock returns only when nobody holds the mutex
Lock(holder) == holder = "free"

\* a registration that keeps one item per path
registerWatchOnce(lst, path, inst, nd, kind) ==
  IF kind \in WatchableKinds /\ ~\E i \in 1..Len(lst) : lst[i].path = path
  THEN Append(lst, [path |-> path, inst |-> inst, node |-> nd])
  ELSE lst

\* Client.registerWatch: the list after registering the destination; only the
\* address of a String, Duration or Int implements Updatable
registerWatch(lst, path, inst, nd, kind) ==
  IF kind \in WatchableKinds
  THEN Append(lst, [path |-> path, inst |-> inst, node |-> nd])
  ELSE lst

\* reflect.Value.Set: whether the value is assignable to a field of the kind
Assignable(val, kind) == val.t = kind

LogEntry(op, n, c, absent) ==
  [op |-> op, call |-> calls, node |-> node, path |-> n.path, content |-> c,
   absent |-> absent]

\* the keys a write touches are dirty for both passes
Dirtied(h, k) == [h EXCEPT !.dirty = [p \in Procs |-> @[p] \cup {k}]]

\* PullOrPush is called with a pointer to a fresh struct
PullOrPush ==
  /\ ~crashed
  /\ pc["fg"] = "idle"
  /\ calls < MaxCalls
  /\ calls' = calls + 1
  /\ node' = 1
  /\ content' = <<>>
  /\ result' = "running"
  /\ pc' = [pc EXCEPT !["fg"] = "get"]
  /\ UNCHANGED <<env, watch, opts, schema, store, vals, list, lock, idx, raw, cancelled, crashed,
                 nExt, nFail, hist>>

\* a traversal that notes the error and goes on with the next field
ReturnsGoesOn(res) ==
  /\ result' = res
  /\ content' = <<>>
  /\ IF node < Len(Walk(schema))
     THEN /\ node' = node + 1
          /\ pc' = [pc EXCEPT !["fg"] = "get"]
     ELSE /\ node' = 0
          /\ pc' = [pc EXCEPT !["fg"] = "idle"]

\* pullOrPush returns an error to PullOrPush, which returns it
Returns(res) ==
  /\ result' = res
  /\ pc' = [pc EXCEPT !["fg"] = "idle"]
  /\ node' = 0
  /\ content' = <<>>

\* after the Get or the Put: registerWatch if the client listens and the
\* destination is watchable (the only step that takes the lock), else on
AfterPush(n) ==
  IF ~opts.disableListen /\ n.kind \in WatchableKinds THEN "reg" ELSE "parse"

\* pullOrPush: content, err := c.kv.Get(consulPath)
pullGet ==
  /\ ~crashed
  /\ pc["fg"] = "get"
  /\ \E fail \in BOOLEAN :
       /\ fail => nFail < MaxFail
       /\ IF fail
          THEN /\ nFail' = nFail + 1
               /\ Returns("err:get")
               /\ hist' = hist
          ELSE LET n == Nodes[node]
                   c == kvGet(store, n.path)
               IN /\ content' = c
                  /\ hist' = [hist EXCEPT !.log =
                                Append(@, LogEntry("get", n, c, ~store[n.path].there))]
                  /\ pc' = [pc EXCEPT !["fg"] =
                              IF needsPut(opts.onlyPull, c, n.kind) THEN "put"
                              ELSE AfterPush(n)]
                  /\ UNCHANGED <<nFail, result, node>>
  /\ UNCHANGED <<env, watch, opts, schema, store, calls, vals, list, lock, idx, raw,
                 cancelled, crashed, nExt>>

\* pullOrPush: the default replaces the content, err := c.kv.Put(consulPath, content)
pullPut ==
  /\ ~crashed
  /\ pc["fg"] = "put"
  /\ LET n == Nodes[node]
         c == putContent(n, content)
     IN \E fail \in BOOLEAN :
          /\ fail => nFail < MaxFail
          /\ IF fail
             THEN /\ nFail' = nFail + 1
                  /\ Returns("err:put")
                  /\ UNCHANGED <<store, hist>>
             ELSE /\ content' = c
                  /\ store' = kvPut(store, n.path, c)
                  /\ hist' = Dirtied([hist EXCEPT !.log =
                               Append(@, LogEntry("put", n, c, hist.log[Len(hist.log)].absent))],
                               n.path)
                  /\ pc' = [pc EXCEPT !["fg"] = AfterPush(n)]
                  /\ UNCHANGED <<nFail, result, node>>
  /\ UNCHANGED <<env, watch, opts, schema, calls, vals, list, lock, idx, raw, cancelled,
                 crashed, nExt>>

\* pullOrPush: if !c.opts.disableListen { c.registerWatch(consulPath, dst) };
\* the append waits for the watch lock
pullRegister ==
  /\ ~crashed
  /\ pc["fg"] = "reg"
  /\ Lock(lock)
  /\ list' = registerWatch(list, Nodes[node].path, calls, node, Nodes[node].kind)
  /\ pc' = [pc EXCEPT !["fg"] = "parse"]
  /\ hist' = [hist EXCEPT !.nreg = @ + (Len(list') - Len(list)),
                          !.appended = @ \o SubSeq(list', Len(list) + 1, Len(list'))]
  /\ UNCHANGED <<env, watch, opts, schema, store, calls, node, content, result, vals, lock, idx,
                 raw, cancelled, crashed, nExt, nFail>>

\* a call that returns without its refresh pass
AdvanceSkipsPass ==
  /\ content' = <<>>
  /\ IF node < Len(Nodes)
     THEN /\ node' = node + 1
          /\ pc' = [pc EXCEPT !["fg"] = "get"]
     ELSE /\ node' = 0
          /\ pc' = [pc EXCEPT !["fg"] = "unlock"]

\* the call goes on to the next destination, or to updateWatch after the last
Advance ==
  /\ content' = <<>>
  /\ IF node < Len(Nodes)
     THEN /\ node' = node + 1
          /\ pc' = [pc EXCEPT !["fg"] = "get"]
     ELSE /\ node' = 0
          /\ pc' = [pc EXCEPT !["fg"] = "lock"]

\* pullOrPush: the well-known parser, the recursion into a struct, or
\* defaultParser, and dst.Set
pullParse ==
  /\ ~crashed
  /\ pc["fg"] = "parse"
  /\ LET n == Nodes[node]
         r == IF dispatch(n.kind) = "wellknown" THEN wellKnownParser(n.kind, content)
              ELSE defaultParser(n.kind, content)
     IN IF dispatch(n.kind) = "struct"
        THEN Advance /\ UNCHANGED <<vals, result, crashed, hist>>
        ELSE IF r.err # "nil"
             THEN /\ Returns("err:" \o r.err)
                  /\ UNCHANGED <<vals, crashed, hist>>
             ELSE IF ~Assignable(r.val, n.kind)
                  THEN /\ result' = "panic"
                       /\ crashed' = TRUE
                       /\ UNCHANGED <<vals, node, pc, content, hist>>
                  ELSE /\ vals' = [vals EXCEPT ![calls][node] = r.val]
                       /\ hist' = [hist EXCEPT !.stale =
                                     IF <<calls, node>> \in hist.refreshed
                                        /\ r.val # vals[calls][node]
                                     THEN @ \cup {<<calls, node>>} ELSE @]
                       /\ Advance
                       /\ UNCHANGED <<result, crashed>>
  /\ UNCHANGED <<env, watch, opts, schema, store, calls, list, lock, idx, raw, cancelled,
                 nExt, nFail>>

(***************************************************************************)
(* updateWatch, run by the caller at the end of PullOrPush and by the      *)
(* runWatch goroutine on a timer tick.                                     *)
(***************************************************************************)
\* c.opts.logger.Log(...): a nil logger makes the call panic
Logs(h, p) == [h EXCEPT !.sunk[p] = @ \cup {idx[p]}]

Fails(h, p) == [h EXCEPT !.failed[p] = @ \cup {idx[p]}]

NextItem(p) ==
  IF idx[p] < Len(list)
  THEN /\ idx' = [idx EXCEPT ![p] = @ + 1]
       /\ pc' = [pc EXCEPT ![p] = "pget"]
  ELSE /\ idx' = [idx EXCEPT ![p] = 0]
       /\ pc' = [pc EXCEPT ![p] = "unlock"]

\* a pass that gives up at the first failure
afterFailureBreaks(p) ==
  /\ idx' = [idx EXCEPT ![p] = 0]
  /\ pc' = [pc EXCEPT ![p] = "unlock"]

\* updateWatch after a failure was logged: "continue" after a failed Get, the
\* end of the loop body after a failed Update
afterFailure(p) == NextItem(p)

Panics(p) ==
  /\ crashed' = TRUE
  /\ result' = IF p = "fg" THEN "panic" ELSE result
  /\ hist' = Fails(hist, p)
  /\ UNCHANGED <<pc, idx>>

\* updateWatch: c.watch.lock.Lock()
passLock(p) ==
  /\ ~crashed
  /\ pc[p] = "lock"
  /\ Lock(lock)
  /\ lock' = p
  /\ idx' = [idx EXCEPT ![p] = IF list = <<>> THEN 0 ELSE 1]
  /\ pc' = [pc EXCEPT ![p] = IF list = <<>> THEN "unlock" ELSE "pget"]
  /\ hist' = [hist EXCEPT !.len[p] = Len(list),
                          !.npass = IF p = "fg" THEN [@ EXCEPT ![calls] = @ + 1] ELSE @,
                          !.scope[p] = hist.changed, !.dirty[p] = {},
                          !.missed[p] = {}, !.visited[p] = {},
                          !.failed[p] = {}, !.sunk[p] = {}]
  /\ UNCHANGED <<env, watch, opts, schema, store, calls, node, content, result, vals, list, raw,
                 cancelled, crashed, nExt, nFail>>

\* updateWatch: raw, err := c.kv.Get(item.path)
passGet(p) ==
  /\ ~crashed
  /\ pc[p] = "pget"
  /\ \E fail \in BOOLEAN :
       /\ fail => nFail < MaxFail
       /\ IF fail
          THEN /\ nFail' = nFail + 1
               /\ raw' = raw
               /\ IF opts.logger
                  THEN /\ hist' = Logs(Fails([hist EXCEPT !.missed[p] = @ \cup {idx[p]},
                                                    !.visited[p] = @ \cup {idx[p]},
                                                    !.late = @ \/ (p = "bg" /\ cancelled)], p), p)
                       /\ afterFailure(p)
                       /\ UNCHANGED <<crashed, result>>
                  ELSE Panics(p)
          ELSE /\ raw' = [raw EXCEPT ![p] = kvGet(store, list[idx[p]].path)]
               /\ pc' = [pc EXCEPT ![p] = "pupd"]
               /\ hist' = [hist EXCEPT !.late = @ \/ (p = "bg" /\ cancelled)]
               /\ UNCHANGED <<nFail, idx, crashed, result>>
  /\ UNCHANGED <<env, watch, opts, schema, store, calls, node, content, vals, list, lock,
                 cancelled, nExt>>

\* a cell whose Update leaves the stored value alone
valueKept(vs, item, val) == vs

\* s.value.Store(...) in the Update of the item's target
valueStore(vs, item, val) == [vs EXCEPT ![item.inst][item.node] = val]

\* updateWatch: item.target.Update(raw)
passUpdate(p) ==
  /\ ~crashed
  /\ pc[p] = "pupd"
  /\ LET item == list[idx[p]]
         u    == CellUpdate(Nodes[item.node].kind, raw[p])
         h    == [hist EXCEPT !.visited[p] = @ \cup {idx[p]},
                              !.late = @ \/ (p = "bg" /\ cancelled)]
     IN IF u.ok
        THEN /\ vals' = valueStore(vals, item, u.val)
             /\ hist' = [h EXCEPT !.refreshed = @ \cup {<<item.inst, item.node>>}]
             /\ NextItem(p)
             /\ UNCHANGED <<crashed, result>>
        ELSE /\ vals' = vals
             /\ IF opts.logger
                THEN /\ hist' = Logs(Fails(h, p), p)
                     /\ afterFailure(p)
                     /\ UNCHANGED <<crashed, result>>
                ELSE Panics(p)
  /\ raw' = [raw EXCEPT ![p] = <<>>]
  /\ UNCHANGED <<env, watch, opts, schema, store, calls, node, content, list, lock,
                 cancelled, nExt, nFail>>

\* updateWatch: c.watch.lock.Unlock(); PullOrPush then returns nil, the loop
\* goes back to its select
passUnlock(p) ==
  /\ ~crashed
  /\ pc[p] = "unlock"
  /\ lock' = "free"
  /\ pc' = [pc EXCEPT ![p] = IF p = "fg" THEN "idle" ELSE "select"]
  /\ result' = IF p = "fg" THEN "nil" ELSE result
  /\ hist' = [hist EXCEPT !.returned = IF p = "fg" THEN @ \cup {calls} ELSE @,
                          !.covered = IF p = "fg" /\ hist.visited[p] = 1..Len(list)
                                      THEN @ \cup {calls} ELSE @,
                          !.scope[p] = {}, !.dirty[p] = {}, !.missed[p] = {},
                          !.failed[p] = {}, !.sunk[p] = {}, !.visited[p] = {},
                          !.len[p] = 0]
  /\ UNCHANGED <<env, watch, opts, schema, store, calls, node, content, vals, list, idx, raw,
                 cancelled, crashed, nExt, nFail>>

(***************************************************************************)
(* runWatch and Stop.                                                      *)
(***************************************************************************)
\* runWatch: case <-timer.C: c.updateWatch(); the select may take this branch
\* also when the context is done
timerTick ==
  /\ ~crashed
  /\ pc["bg"] = "select"
  /\ pc' = [pc EXCEPT !["bg"] = "lock"]
  /\ hist' = [hist EXCEPT !.late = @ \/ cancelled]
  /\ UNCHANGED <<env, watch, opts, schema, store, calls, node, content, result, vals, list, lock,
                 idx, raw, cancelled, crashed, nExt, nFail>>

\* runWatch: case <-c.ctx.Done(): return
ctxDone ==
  /\ ~crashed
  /\ pc["bg"] = "select"
  /\ cancelled
  /\ pc' = [pc EXCEPT !["bg"] = "exited"]
  /\ UNCHANGED <<env, watch, opts, schema, store, calls, node, content, result, vals, list, lock,
                 idx, raw, cancelled, crashed, nExt, nFail, hist>>

\* Client.Stop: c.stop() cancels the context and returns
Stop ==
  /\ ~crashed
  /\ ~cancelled
  /\ cancelled' = TRUE
  /\ UNCHANGED <<env, watch, opts, schema, store, pc, calls, node, content, result, vals, list,
                 lock, idx, raw, crashed, nExt, nFail, hist>>

(***************************************************************************)
(* The external writer: another client of the same store.                  *)
(***************************************************************************)
LeafKeys == {Nodes[i].path : i \in {j \in 1..Len(Nodes) : Nodes[j].kind # "struct"}}

\* what the external writer writes: an integer, a duration, and nothing
ExtContents == {<<"7">>, <<"9", "s">>, <<>>}

externalWrite ==
  /\ ~crashed
  /\ nExt < MaxExt
  /\ \E k \in LeafKeys, c \in ExtContents :
       /\ store' = kvPut(store, k, c)
       /\ hist' = Dirtied([hist EXCEPT !.extKeys = @ \cup {k}, !.changed = @ \cup
                    {i \in 1..Len(list) : list[i].path = k /\ list[i].inst \in hist.returned}],
                    k)
  /\ nExt' = nExt + 1
  /\ UNCHANGED <<env, watch, opts, schema, pc, calls, node, content, result, vals, list, lock, idx,
                 raw, cancelled, crashed, nFail>>

(***************************************************************************)
(* Struct types and stores of the model.                                   *)
(***************************************************************************)
Default(d) == << <<"default", d>> >>

NoTag == <<>>

\* struct fields of the kinds and tags the model meets, named by position
Variant(name, v) ==
  CASE v = "int100"    -> Fld(name, "int", Default(<<"1", "0", "0">>), <<>>)
    [] v = "int"       -> Fld(name, "int", NoTag, <<>>)
    [] v = "string"    -> Fld(name, "string", Default(<<"a", "b">>), <<>>)
    [] v = "named"     -> Fld(name, "string", << <<"name", "x">>, <<"DEFAULT", <<" ", "a">> >>, <<"default">> >>, <<>>)
    [] v = "bool"      -> Fld(name, "bool", NoTag, <<>>)
    [] v = "uint64"    -> Fld(name, "uint64", NoTag, <<>>)
    [] v = "int16"     -> Fld(name, "int16", Default(<<"4", "0", "0", "0", "0">>), <<>>)
    [] v = "float32"   -> Fld(name, "float32", Default(<<"2", ".", "5", "0">>), <<>>)
    [] v = "bytes"     -> Fld(name, "bytes", NoTag, <<>>)
    [] v = "int8"      -> Fld(name, "int8", Default(<<"1">>), <<>>)
    [] v = "map"       -> Fld(name, "map", NoTag, <<>>)
    [] v = "timeout"   -> Fld(name, "time.Duration", Default(<<"5", "s">>), <<>>)
    [] v = "duration"  -> Fld(name, "time.Duration", NoTag, <<>>)
    [] v = "String"    -> Fld(name, "String", Default(<<"a", "b">>), atomicValue)
    [] v = "Int"       -> Fld(name, "Int", Default(<<"5">>), atomicValue)
    [] v = "Duration"  -> Fld(name, "Duration", Default(<<"5", "s">>), atomicValue)
    [] v = "Toml"      -> Fld(name, "Toml", Default(<<"a", "=", "5">>), atomicValue)
    [] v = "nested"    -> Fld("N", "struct", NoTag,
                              << Fld("A", "int", Default(<<"1", "0", "0">>), <<>>),
                                 Fld("B", "string", NoTag, <<>>) >>)

FieldNames == <<"A", "B", "C">>

\* the struct types whose fields are the variants vs, in that order
Struct(vs) == [i \in 1..Len(vs) |-> Variant(FieldNames[i], vs[i])]

\* a content of the store the parser of the kind accepts
Sample(kind) ==
  CASE kind = "bool" -> <<"t", "r", "u", "e">>
    [] kind \in {"float32", "float64"} -> <<"0", ".", "5">>
    [] kind \in {"time.Duration", "Duration"} -> <<"9", "s">>
    [] kind = "Toml" -> <<"a", "=", "7">>
    [] OTHER -> <<"7">>

LeafIdx(nodes) == {i \in 1..Len(nodes) : nodes[i].kind # "struct"}

\* the store in which the key of leaf i is absent (0), empty (1) or holds a
\* sample of the leaf's kind (2), as ch says
StoreOf(nodes, ch) ==
  [k \in Keys |->
     IF \E i \in LeafIdx(nodes) : nodes[i].path = k
     THEN LET i == CHOOSE j \in LeafIdx(nodes) :
                     nodes[j].path = k /\ \A m \in LeafIdx(nodes) : nodes[m].path = k => j <= m
          IN CASE ch[i] = 0 -> Absent
               [] ch[i] = 1 -> Present(<<>>)
               [] ch[i] = 2 -> Present(Sample(nodes[i].kind))
     ELSE Absent]

\* every store over the keys of the leaves
AnyStore(nodes) == {StoreOf(nodes, ch) : ch \in [LeafIdx(nodes) -> {0, 1, 2}]}

\* the fresh store and the store that holds a sample at every leaf
PlainStore(nodes) == {StoreOf(nodes, [i \in LeafIdx(nodes) |-> c]) : c \in {0, 2}}

AllOptions == [onlyPull : BOOLEAN, disableListen : BOOLEAN, logger : BOOLEAN]

(***************************************************************************)
(* Spec: the client with its background loop, the external writer and      *)
(* failing store calls.                                                    *)
(***************************************************************************)
WatchSchemas ==
  { Struct(<<"int100", "String">>), Struct(<<"Int", "Duration">>) }

\* NewClient() without options, with SetLogger, with OnlyPull and with
\* DisableWatch
WatchOptions ==
  { [onlyPull |-> FALSE, disableListen |-> FALSE, logger |-> FALSE],
    [onlyPull |-> FALSE, disableListen |-> FALSE, logger |-> TRUE],
    [onlyPull |-> TRUE, disableListen |-> FALSE, logger |-> TRUE],
    [onlyPull |-> FALSE, disableListen |-> TRUE, logger |-> TRUE] }

Init == InitOver(WatchOptions, UNION { {<<s, st>> : st \in PlainStore(Walk(s))} : s \in WatchSchemas })

Next ==
  \/ PullOrPush
  \/ pullGet
  \/ pullPut
  \/ pullRegister
  \/ pullParse
  \/ \E p \in Procs : passLock(p)
  \/ \E p \in Procs : passGet(p)
  \/ \E p \in Procs : passUpdate(p)
  \/ \E p \in Procs : passUnlock(p)
  \/ timerTick
  \/ ctxDone
  \/ Stop
  \/ externalWrite

Spec == Init /\ [][Next]_vars

\* the same program from one struct type and one option set, with the
\* scheduling the runtime gives: the timer keeps firing while the loop waits
\* in its select, and a goroutine that can take its next step takes it
LiveSchemas == {Struct(<<"Int", "Duration">>)}

LiveOptions == {[onlyPull |-> FALSE, disableListen |-> FALSE, logger |-> TRUE]}

InitLive == InitOver(LiveOptions, UNION { {<<s, st>> : st \in PlainStore(Walk(s))} : s \in LiveSchemas })

Fairness ==
  /\ WF_vars(timerTick)
  /\ \A p \in Procs :
       /\ WF_vars(passLock(p))
       /\ WF_vars(passGet(p))
       /\ WF_vars(passUpdate(p))
       /\ WF_vars(passUnlock(p))

SpecLive == InitLive /\ [][Next]_vars /\ Fairness

(***************************************************************************)
(* SpecSync: the calls of one caller while the refresh timer (one minute   *)
(* by default) does not fire, over struct types of every kind of field.    *)
(***************************************************************************)
AllVariants ==
  {"int100", "int", "string", "named", "bool", "uint64", "int16", "float32", "bytes",
   "int8", "map", "timeout", "duration", "String", "Int", "Duration", "Toml", "nested"}

PairVariants == {"int100", "string", "bool", "map", "Int", "nested"}

TripleVariants == {"int100", "map", "String"}

SyncSchemas ==
  {Struct(<<v>>) : v \in AllVariants}
  \cup {Struct(<<v, w>>) : v \in PairVariants, w \in PairVariants}
  \cup {Struct(<<u, v, w>>) : u \in TripleVariants, v \in TripleVariants, w \in TripleVariants}

\* NewClient(SetLogger(l)) alone, with OnlyPull and with DisableWatch
SyncOptions ==
  { [onlyPull |-> FALSE, disableListen |-> FALSE, logger |-> TRUE],
    [onlyPull |-> TRUE, disableListen |-> FALSE, logger |-> TRUE],
    [onlyPull |-> FALSE, disableListen |-> TRUE, logger |-> TRUE] }

SyncStores(nodes) == IF Len(nodes) > 3 THEN PlainStore(nodes) ELSE AnyStore(nodes)

InitSync == InitOver(SyncOptions, UNION { {<<s, st>> : st \in SyncStores(Walk(s))} : s \in SyncSchemas })

NextSync ==
  \/ PullOrPush
  \/ pullGet
  \/ pullPut
  \/ pullRegister
  \/ pullParse
  \/ passLock("fg")
  \/ passGet("fg")
  \/ passUpdate("fg")
  \/ passUnlock("fg")
  \/ externalWrite

SpecSync == InitSync /\ [][NextSync]_vars

(***************************************************************************)
(* Properties of the traversal, under SpecSync.                            *)
(***************************************************************************)
Puts == {i \in 1..Len(hist.log) : hist.log[i].op = "put"}

HasDefault(n) == n.hasTag /\ makeTagOpts(n.tag).hasDefault

\* the value a field of the kind takes from the content
Coerced(kind, c) ==
  IF kind \in WellKnownKinds THEN wellKnownParser(kind, c) ELSE defaultParser(kind, c)

\* call c has finished the destination nd without an error
Processed(c, nd) ==
  c \in hist.returned \/ \E j \in 1..Len(hist.log) : hist.log[j].call = c /\ hist.log[j].node > nd

\* C1: PullOrPush puts a key only if the key was absent from the store at the
\* moment of the Get the same call made for it; an existing key, also one
\* with an empty value, is never overwritten.
C1_PutOnlyIfAbsent == \A i \in Puts : hist.log[i].absent

C3_Idempotent ==
  (hist.init = "full" /\ hist.extKeys = {})
  => /\ Puts = {}
     /\ {1, 2} \subseteq hist.returned => vals[1] = vals[2]

\* C4: with OnlyPull and an empty store, PullOrPush issues no Put, returns
\* without error and leaves every field at its type's zero value, whatever
\* the field types.
C4_PullOnly ==
  (opts.onlyPull /\ hist.init = "fresh" /\ hist.extKeys = {} /\ nFail = 0)
  => /\ Puts = {}
     /\ ~crashed
     /\ (pc["fg"] = "idle" /\ calls > 0) => result = "nil"
     /\ \A c \in 1..MaxCalls : \A i \in 1..Len(Nodes) : vals[c][i] = Zero(Nodes[i].kind)

\* the Gets and Puts of the call that has just returned
Mine == SelectSeq(hist.log, LAMBDA e : e.call = calls)

\* C8: PullOrPush processes the fields in declared order and stops at the
\* first that fails: when it returns the unsupported-type error, the field k
\* it stopped at has an unsupported kind and is the first such field, every
\* field up to k was read in order, every Put for the fields before k is
\* still in the store, and no Get or Put was issued for a field after k; a
\* call that returns nil met no field of an unsupported kind.
C8_FatalAbort ==
  /\ (pc["fg"] = "idle" /\ result = "err:unsupported") =>
       LET k == Mine[Len(Mine)].node
       IN /\ Nodes[k].kind \in UnparsedKinds
          /\ \A m \in 1..(k - 1) : Nodes[m].kind \notin UnparsedKinds
          /\ \A j \in 1..Len(Mine) : Mine[j].node <= k
          /\ \A j \in 1..(Len(Mine) - 1) : Mine[j].node <= Mine[j + 1].node
          /\ \A m \in 1..k : \E j \in 1..Len(Mine) : Mine[j].node = m /\ Mine[j].op = "get"
          /\ \A j \in 1..Len(Mine) :
               (Mine[j].op = "put" /\ Mine[j].node < k /\ Mine[j].path \notin hist.extKeys)
               => store[Mine[j].path] = Present(Mine[j].content)
  /\ hist.returned # {} => \A m \in 1..Len(Nodes) : Nodes[m].kind \notin UnparsedKinds

\* the third declared field is unsupported: the Puts of the first two stay
C8_Witness ==
  /\ pc["fg"] = "idle"
  /\ result = "err:unsupported"
  /\ Len(Nodes) = 4
  /\ Mine[Len(Mine)].node = 4
  /\ \E i, j \in 1..Len(Mine) :
       /\ Mine[i].op = "put" /\ Mine[i].node = 2 /\ store[Mine[i].path] = Present(Mine[i].content)
       /\ Mine[j].op = "put" /\ Mine[j].node = 3 /\ store[Mine[j].path] = Present(Mine[j].content)

\* C9: after a first call on a fresh store has succeeded and provisioned
\* every key, a second call on a zero-valued struct of the same type and root
\* path, with no external write in between, yields the same field values.
C9_RoundTrip ==
  (/\ hist.init = "fresh"
   /\ hist.extKeys = {}
   /\ {1, 2} \subseteq hist.returned
   /\ \A i \in LeafIdx(Nodes) : store[Nodes[i].path].there)
  => vals[2] = vals[1]

C9_Witness ==
  /\ hist.init = "fresh"
  /\ hist.extKeys = {}
  /\ {1, 2} \subseteq hist.returned
  /\ \A i \in LeafIdx(Nodes) : store[Nodes[i].path].there
  /\ \E i \in LeafIdx(Nodes) : vals[2][i] # Zero(Nodes[i].kind)

(***************************************************************************)
(* SpecParse: one call over a struct of one scalar field of each kind,     *)
(* against each content of the field's key.                                *)
(***************************************************************************)
\* the scalar kinds: string, byte slice, bool, the integers of every width
\* and the floats
ScalarKinds == ParsedKinds \cup {"int8", "uint8", "uint16"}

ParseSchemas == { <<Fld("A", k, NoTag, <<>>)>> : k \in ScalarKinds }

ParseContents ==
  { <<>>, <<" ">>, <<"\n", " ">>, <<" ", "7", " ">>, <<"x">>, <<"-", "3">>,
    <<"4", "0", "0", "0", "0">>, <<"t", "r", "u", "e">>, <<"2", ".", "5", "0">> }

ParseStores(nodes) ==
  { [k \in Keys |-> IF k = nodes[2].path THEN v ELSE Absent] :
      v \in {Absent} \cup {Present(c) : c \in ParseContents} }

ParseOptions ==
  { [onlyPull |-> o, disableListen |-> TRUE, logger |-> TRUE] : o \in BOOLEAN }

InitParse == InitOver(ParseOptions, UNION { {<<s, st>> : st \in ParseStores(Walk(s))} : s \in ParseSchemas })

NextParse ==
  \/ PullOrPush
  \/ pullGet
  \/ pullPut
  \/ pullParse
  \/ passLock("fg")
  \/ passUnlock("fg")

SpecParse == InitParse /\ [][NextParse]_vars

\* C10: for a scalar leaf of every kind (string, byte slice, bool, signed
\* and unsigned integers of every width, floats), content that is empty after
\* trimming white space is accepted without error and without a crash, and
\* the field is set to the kind's zero value.
C10_EmptyIsZero ==
  (nFail = 0 /\ TrimSpace(kvGet(store, Nodes[2].path)) = <<>>)
  => /\ ~crashed
     /\ (pc["fg"] = "idle" /\ calls > 0) =>
          /\ result = "nil"
          /\ \A c \in 1..calls : vals[c][2] = Zero(Nodes[2].kind)

(***************************************************************************)
(* Properties of the watch list and the refresh passes.                   *)
(***************************************************************************)
Cell(i) == vals[list[i].inst][list[i].node]

CellKind(i) == Nodes[list[i].node].kind

\* the pass of p has visited every item and has not yet released the lock
PassDone(p) == pc[p] = "unlock"

\* item i at the end of the pass of p: its key was changed by the external
\* writer after the registering call had returned and before the pass began,
\* nothing wrote the key since, its Get did not fail, and the cell's parser
\* accepts the content
Refreshed(p, i) ==
  /\ i \in hist.scope[p]
  /\ list[i].path \notin hist.dirty[p]
  /\ i \notin hist.missed[p]
  /\ CellUpdate(CellKind(i), kvGet(store, list[i].path)).ok

Converged ==
  \A p \in Procs : PassDone(p) =>
    \A i \in 1..Len(list) :
      Refreshed(p, i) => Cell(i) = CellUpdate(CellKind(i), kvGet(store, list[i].path)).val

\* a write to a watched key is followed by the end of a pass that began after
\* it, unless the client is stopped or the process has died
PassHappens ==
  (hist.changed # {}) ~>
    (cancelled \/ crashed \/ \E p \in Procs : PassDone(p) /\ hist.scope[p] # {})

\* C5: after a PullOrPush that registered a watch has returned, when the
\* external writer sets the key to content the cell's parser accepts, the
\* cell holds that content decoded at the end of the next refresh pass that
\* began after the write (the loop's or a PullOrPush's); and while the
\* client is not stopped such a pass eventually ends.
C5_WatchConvergence == []Converged /\ PassHappens

C5_Witness ==
  \E i \in 1..Len(list) :
    /\ PassDone("bg")
    /\ Refreshed("bg", i)
    /\ kvGet(store, list[i].path) = <<"7">>
    /\ Cell(i) = Val("Int", 7, <<>>, 0)

\* C6: in a refresh pass of a client with a logger, a failing Get or Update
\* is handed to the logger, the pass still visits every item of the list, no
\* item leaves the list, and the PullOrPush that ran the pass returns nil.
C6_FailureIsolation ==
  opts.logger =>
    /\ ~crashed
    /\ Len(list) = hist.nreg
    /\ \A p \in Procs :
         /\ hist.failed[p] = hist.sunk[p]
         /\ pc[p] \in {"pget", "pupd"} => hist.visited[p] = 1..(idx[p] - 1)
         /\ PassDone(p) => hist.visited[p] = 1..Len(list)
    /\ (pc["fg"] = "idle" /\ result \notin {"none", "nil"}) => hist.failed["fg"] = {}
    /\ result # "panic"

\* a pass whose first item failed has visited the second
C6_Witness ==
  \E p \in Procs :
    /\ opts.logger
    /\ PassDone(p)
    /\ Len(list) >= 2
    /\ 1 \in hist.failed[p]
    /\ 1 \in hist.sunk[p]
    /\ hist.visited[p] = 1..Len(list)

\* C7: once Stop has returned, the background loop starts no refresh pass
\* and performs no store Get and no Update.
C7_QuietAfterStop == ~hist.late

(***************************************************************************)
(* Properties of what PullOrPush writes, registers and returns.            *)
(***************************************************************************)
\* the text of a kind's zero value, as fmt prints it
ZeroText(kind) ==
  CASE kind \in {"string", "bytes"} -> <<>>
    [] kind = "bool" -> <<"f", "a", "l", "s", "e">>
    [] OTHER -> <<"0">>

\* C11: with pull-only off, the content PullOrPush puts for a scalar leaf
\* whose key is absent and whose tag has no default is the text of the
\* field's zero value: "0" for an integer, "false" for a bool.
C11_ZeroValueProvisioned ==
  \A i \in Puts :
    LET g == hist.log[i]
        n == Nodes[g.node]
    IN (g.absent /\ n.kind \in ScalarKinds /\ ~HasDefault(n)) => g.content = ZeroText(n.kind)

\* C13: a client created with OnlyPull appends no WatchItem to the watch
\* list, whatever Updatable fields the struct has.
C13_OnlyPullRegistersNothing == opts.onlyPull => (list = <<>> /\ hist.nreg = 0)

\* what the error PullOrPush returns says: the path of the field, the type of
\* the destination
errorText(res) ==
  CASE res = "err:get"         -> [path |-> TRUE, type |-> FALSE]
    [] res = "err:put"         -> [path |-> TRUE, type |-> FALSE]
    [] res = "err:custom"      -> [path |-> TRUE, type |-> TRUE]
    [] res = "err:parse"       -> [path |-> FALSE, type |-> FALSE]
    [] res = "err:unsupported" -> [path |-> FALSE, type |-> TRUE]

Errors == {"err:get", "err:put", "err:custom", "err:parse", "err:unsupported"}

\* C15: every error PullOrPush returns (failed Get, failed Put, failed custom
\* parser, failed scalar parse, unsupported kind) carries the path of the
\* offending field, and a parse failure also names the target type.
C15_ErrorContext ==
  result \in Errors =>
    /\ errorText(result).path
    /\ result \in {"err:custom", "err:parse"} => errorText(result).type

(***************************************************************************)
(* SpecFrame: the caller may set the field of its struct before the call.  *)
(***************************************************************************)
\* a value of the kind that is not its zero value
Preset(kind) ==
  IF kind \in {"string", "bytes"} THEN Val(kind, 0, <<"p">>, 0) ELSE Val(kind, 1, <<>>, 0)

\* the caller fills a field of the struct it is about to pass
populate ==
  /\ ~crashed
  /\ pc["fg"] = "idle"
  /\ calls < MaxCalls
  /\ \E i \in LeafIdx(Nodes) :
       /\ <<calls + 1, i>> \notin hist.pre
       /\ vals' = [vals EXCEPT ![calls + 1][i] = Preset(Nodes[i].kind)]
       /\ hist' = [hist EXCEPT !.pre = @ \cup {<<calls + 1, i>>}]
  /\ UNCHANGED <<env, watch, opts, schema, store, pc, calls, node, content, result, list, lock,
                 idx, raw, cancelled, crashed, nExt, nFail>>

InitFrame == InitParse

NextFrame ==
  \/ populate
  \/ PullOrPush
  \/ pullGet
  \/ pullPut
  \/ pullParse
  \/ passLock("fg")
  \/ passUnlock("fg")

SpecFrame == InitFrame /\ [][NextFrame]_vars

\* the value the field held when the call began
Before(c, i) == IF <<c, i>> \in hist.pre THEN Preset(Nodes[i].kind) ELSE Zero(Nodes[i].kind)

\* C12: in pull-only mode, for a scalar leaf whose key is absent, PullOrPush
\* leaves the field holding the value it held before the call (also a
\* non-zero value the caller had put there), and issues no Put and no second
\* Get for the key.
C12_PullOnlyFrame ==
  opts.onlyPull =>
    \A i \in 1..Len(hist.log) :
      LET g == hist.log[i]
      IN (g.op = "get" /\ g.absent /\ Nodes[g.node].kind \in ScalarKinds) =>
           /\ vals[g.call][g.node] = Before(g.call, g.node)
           /\ \A j \in 1..Len(hist.log) :
                (j # i /\ hist.log[j].call = g.call) => hist.log[j].path # g.path

(***************************************************************************)
(* Properties of the registered types, under SpecSync.                     *)
(***************************************************************************)
\* path q lies strictly below path p
Below(q, p) == Len(q) > Len(p) /\ SubSeq(q, 1, Len(p)) = p

\* the Gets and Puts call c made for destination nd
Ops(c, nd) == SelectSeq(hist.log, LAMBDA e : e.call = c /\ e.node = nd)

\* C14: a field whose exact type is registered in the well-known-type table
\* is handled by its registered parser, once, on the field's own path, also
\* when the type is a struct: the call makes one Get on the path, no Get or
\* Put below it, and when it has finished the field the field holds what the
\* registered parser returns for the content (as long as no external writer
\* has changed the key for a later refresh).
C14_WellKnownFirst ==
  \A nd \in 1..Len(Nodes) : Nodes[nd].kind \in WellKnownKinds =>
    /\ \A j \in 1..Len(hist.log) : ~Below(hist.log[j].path, Nodes[nd].path)
    /\ \A c \in 1..calls :
         LET ops == Ops(c, nd)
         IN /\ Len(SelectSeq(ops, LAMBDA e : e.op = "get")) <= 1
            /\ \A j \in 1..Len(ops) : ops[j].path = Nodes[nd].path
            /\ (ops # <<>> /\ Processed(c, nd) /\ Nodes[nd].path \notin hist.extKeys) =>
                 /\ wellKnownParser(Nodes[nd].kind, ops[Len(ops)].content).err = "nil"
                 /\ vals[c][nd] = wellKnownParser(Nodes[nd].kind, ops[Len(ops)].content).val

\* a call has finished a String field, a struct by kind, with its default
C14_Witness ==
  \E nd \in 1..Len(Nodes) :
    /\ Nodes[nd].kind = "String"
    /\ Nodes[nd].kind \in StructKinds
    /\ 1 \in hist.returned
    /\ Len(Ops(1, nd)) = 2
    /\ vals[1][nd] = Val("String", 0, <<"a", "b">>, 0)

(***************************************************************************)
(* Properties of the watched cells on a store nobody else writes.          *)
(***************************************************************************)
\* what the cells of the model's struct types read once provisioned: the
\* text "ab", the integer 5, five seconds
Provisioned(kind) ==
  CASE kind = "String"   -> Val("String", 0, <<"a", "b">>, 0)
    [] kind = "Int"      -> Val("Int", 5, <<>>, 0)
    [] kind = "Duration" -> Val("Duration", 5, <<>>, 0)

\* C19: after a PullOrPush on a fresh store has returned nil, each watchable
\* cell (String, Duration, Int) of its struct reads its provisioned default
\* decoded, and while no external writer changes the store it reads that
\* value in every later state, whatever refresh passes run.
C19_StableCells ==
  (hist.init = "fresh" /\ hist.extKeys = {} /\ ~opts.onlyPull) =>
    \A c \in hist.returned : \A nd \in 1..Len(Nodes) :
      Nodes[nd].kind \in WatchableKinds => vals[c][nd] = Provisioned(Nodes[nd].kind)

\* the loop has finished a pass over the registered cells of a returned call
C19_Witness ==
  /\ hist.init = "fresh"
  /\ hist.extKeys = {}
  /\ ~opts.onlyPull
  /\ 1 \in hist.returned
  /\ PassDone("bg")
  /\ Len(list) >= 2
  /\ hist.visited["bg"] = 1..Len(list)
  /\ hist.failed["bg"] = {}
  /\ \E i \in 1..Len(list) : list[i].inst = 1 /\ Cell(i) = Val("Duration", 5, <<>>, 0)

(***************************************************************************)
(* The older client of consul.go: LoadStruct.  Its keys are Go strings,    *)
(* modelled as sequences of characters, built with fmt.Sprintf("%s/%s")    *)
(* and cut with strings.TrimPrefix and strings.TrimLeft.                   *)
(***************************************************************************)
Slash == "/"

RECURSIVE TrimLeftOf(_, _)
\* strings.TrimLeft(s, c) for a one-character cutset
TrimLeftOf(s, c) == IF s # <<>> /\ Head(s) = c THEN TrimLeftOf(Tail(s), c) ELSE s

RECURSIVE TrimRightOf(_, _)
TrimRightOf(s, c) ==
  IF s # <<>> /\ s[Len(s)] = c THEN TrimRightOf(SubSeq(s, 1, Len(s) - 1), c) ELSE s

\* strings.Trim(s, c)
Trim(s, c) == TrimRightOf(TrimLeftOf(s, c), c)

HasPrefix(s, p) == Len(s) >= Len(p) /\ SubSeq(s, 1, Len(p)) = p

\* strings.TrimPrefix
TrimPrefix(s, p) == IF HasPrefix(s, p) THEN SubSeq(s, Len(p) + 1, Len(s)) ELSE s

\* a getGroupName that leaves the parent alone
getGroupNameBare(parent, groupName) == parent

\* client.getGroupName, for the value os.Getenv("GROUP_NAME") returns
getGroupName(parent, groupName) ==
  IF groupName # <<>> THEN Trim(groupName, Slash) \o <<Slash>> \o parent ELSE parent

\* client.normalizeKeyName on the field names of the model: the runs that
\* begin with capitals, joined by "." and lowered
normalizeKeyName(name) ==
  CASE name = "A"  -> <<"a">>
    [] name = "B"  -> <<"b">>
    [] name = "M"  -> <<"m">>
    [] name = "MX" -> <<"m", "x">>
    [] name = "N"  -> <<"n">>
    [] name = "T"  -> <<"t">>

\* client.getTagOptions: the segments "name:value" with a non-empty value
\* whose name is exactly "name" or "default"; the last of each wins
RECURSIVE getTagOptions(_)
getTagOptions(tag) ==
  IF tag = <<>> THEN [hasName |-> FALSE, Name |-> <<>>, hasDefault |-> FALSE, Default |-> <<>>]
  ELSE LET before == getTagOptions(SubSeq(tag, 1, Len(tag) - 1))
           kv     == tag[Len(tag)]
       IN IF Len(kv) < 2 \/ kv[2] = <<>> THEN before
          ELSE IF kv[1] = "default"
               THEN [before EXCEPT !.hasDefault = TRUE, !.Default = kv[2]]
               ELSE IF kv[1] = "name"
                    THEN [before EXCEPT !.hasName = TRUE, !.Name = kv[2]]
                    ELSE before

\* client.getKeyPath
getKeyPath(parent, field) ==
  LET tagOptions == getTagOptions(field.tag)
  IN parent \o <<Slash>> \o
       (IF tagOptions.hasName THEN tagOptions.Name ELSE normalizeKeyName(field.name))

\* client.typifyValue: string, float32, float64, int and bool by kind, then
\* time.Duration (a count of nanoseconds), else "unsupported type"
typifyValue(kind, value) ==
  LET int  == ParseInt(TrimSpace(value), 64)
      flt  == ParseFloat(TrimSpace(value))
      bool == ParseBool(value)
  IN CASE kind = "string" -> [val |-> Val("string", 0, value, 0), err |-> "nil"]
       [] kind \in {"float32", "float64"} ->
            IF Len(value) = 0 THEN [val |-> Val(kind, 0, <<>>, 0), err |-> "nil"]
            ELSE IF flt.ok THEN [val |-> Val(kind, flt.n, <<>>, flt.e), err |-> "nil"]
                 ELSE [val |-> NilVal, err |-> "parse"]
       [] kind = "int" ->
            IF Len(value) = 0 THEN [val |-> Val("int", 0, <<>>, 0), err |-> "nil"]
            ELSE IF int.ok THEN [val |-> Val("int", int.n, <<>>, 0), err |-> "nil"]
                 ELSE [val |-> NilVal, err |-> "parse"]
       [] kind = "bool" ->
            IF bool.ok THEN [val |-> Val("bool", bool.n, <<>>, 0), err |-> "nil"]
            ELSE [val |-> NilVal, err |-> "parse"]
       [] kind = "time.Duration" ->
            IF int.ok THEN [val |-> Val("time.Duration", int.n, <<>>, 0), err |-> "nil"]
            ELSE [val |-> NilVal, err |-> "parse"]
       [] OTHER -> [val |-> NilVal, err |-> "unsupported"]

\* the key and the element type of the map types of the model
MapKey(kind) == IF kind = "map[int]string" THEN "int" ELSE "string"

MapElem(kind) == IF kind = "map[string]int" THEN "int" ELSE "string"

MapKinds == {"map[string]string", "map[int]string", "map[string]int"}

\* client.Get: a nil pair is ErrKVNotFound
Found(st, key) == st[key].there

\* a listing that keeps the whole key of each pair
loadMapWholeKeys(parent, st) ==
  { [k |-> key, v |-> st[key].v] :
      key \in {x \in DOMAIN st : st[x].there /\ HasPrefix(x, parent)} }

\* client.loadMapStringString: c.kv.List(parent) returns the pairs whose key
\* has the prefix; the entry's key is what is left of the pair's key after
\* the prefix and the slashes that follow, and an empty one is skipped
loadMapStringString(parent, st) ==
  { e \in { [k |-> TrimLeftOf(TrimPrefix(key, parent), Slash), v |-> st[key].v] :
              key \in {x \in DOMAIN st : st[x].there /\ HasPrefix(x, parent)} } :
      e.k # <<>> }

\* the state of a LoadStruct call: the store, the store operations issued,
\* the fields set so far, and the error
Op(acc, op, path, c) ==
  [acc EXCEPT !.log = Append(@, [op |-> op, path |-> path, content |-> c])]

\* the operation just issued is the one that fails
Failed(acc, failAt) == Len(acc.log) = failAt

Sets(acc, path, val) == [acc EXCEPT !.set = Append(@, [path |-> path, val |-> val])]

\* recursiveLoadStruct, the map branch after the checks of the map's type:
\* Get the path, Put the placeholder path + "/" if the key is not found, list
\* the pairs, set the field
fillMap(path, f, acc, failAt) ==
  LET a1    == Op(acc, "get", path, <<>>)
      found == Found(acc.st, path)
      dir   == path \o <<Slash>>
      a2    == IF found THEN a1 ELSE Op(a1, "put", dir, <<>>)
      a3    == IF found THEN a1 ELSE [a2 EXCEPT !.st = kvPut(@, dir, <<>>)]
      a4    == Op(a3, "list", path, <<>>)
  IN IF Failed(a1, failAt) THEN [a1 EXCEPT !.err = "store"]
     ELSE IF ~found /\ Failed(a2, failAt) THEN [a2 EXCEPT !.err = "store"]
     ELSE IF Failed(a4, failAt) THEN [a4 EXCEPT !.err = "store"]
     ELSE Sets(a4, path, [t |-> "map", m |-> loadMapStringString(path, a3.st)])

\* the map branch without the checks of the map's type
loadMapUnchecked(path, f, acc, failAt) == fillMap(path, f, acc, failAt)

\* recursiveLoadStruct, the map branch: the key type and the value type must
\* be string
loadMap(path, f, acc, failAt) ==
  IF MapKey(f.kind) # "string" THEN [acc EXCEPT !.err = "mapkey"]
  ELSE IF MapElem(f.kind) # "string" THEN [acc EXCEPT !.err = "mapvalue"]
  ELSE fillMap(path, f, acc, failAt)

\* recursiveLoadStruct, the last branch: a scalar field
loadScalar(path, f, acc, failAt) ==
  LET tagOptions == getTagOptions(f.tag)
      default    == IF tagOptions.hasDefault THEN tagOptions.Default ELSE <<>>
      a1         == Op(acc, "get", path, <<>>)
      found      == Found(acc.st, path)
      a2         == IF found THEN a1 ELSE Op(a1, "put", path, default)
      a3         == IF found THEN a1 ELSE [a2 EXCEPT !.st = kvPut(@, path, default)]
      fieldValue == IF found THEN acc.st[path].v ELSE default
      v          == typifyValue(f.kind, fieldValue)
  IN IF Failed(a1, failAt) THEN [a1 EXCEPT !.err = "store"]
     ELSE IF ~found /\ Failed(a2, failAt) THEN [a2 EXCEPT !.err = "store"]
     ELSE IF v.err # "nil" THEN [a3 EXCEPT !.err = v.err]
     ELSE Sets(a3, path, v.val)

RECURSIVE recursiveLoadStruct(_, _, _, _)
\* client.recursiveLoadStruct over the fields from the first on: a time.Time
\* is left alone, a map is listed, a struct is entered, anything else is a
\* scalar; the first error ends the call
recursiveLoadStruct(parent, fields, acc, failAt) ==
  IF fields = <<>> \/ acc.err # "nil" THEN acc
  ELSE LET f    == Head(fields)
           path == getKeyPath(parent, f)
           next == CASE ~f.exported -> [acc EXCEPT !.err = "panic"]
                     [] f.kind = "time.Time" -> acc
                     [] f.kind \in MapKinds -> loadMap(path, f, acc, failAt)
                     [] f.kind = "struct" -> recursiveLoadStruct(path, f.sub, acc, failAt)
                     [] OTHER -> loadScalar(path, f, acc, failAt)
       IN recursiveLoadStruct(parent, Tail(fields), next, failAt)

(***************************************************************************)
(* SpecLoad: LoadStruct calls of the older client, another client of the   *)
(* store, and a process environment that changes.                          *)
(***************************************************************************)
\* the parent every call of the model passes to LoadStruct
LoadParent == <<"r">>

\* the values GROUP_NAME takes
Groups == {<<>>, <<"/", "g", "/">>}

Str(a, b) == <<a, Slash, b>>

\* the keys below the parent, and the store's keys
LoadBase ==
  { <<"a">>, <<"b">>, <<"t">>, <<"m">>, <<"m", Slash>>, <<"m", Slash, "k">>,
    <<"m", Slash, "l">>, <<"m", "x">>, Str("n", "a"), Str("n", "b") }

LoadKeys ==
  { getGroupName(LoadParent, g) \o <<Slash>> \o k : g \in Groups, k \in LoadBase }

\* string, map and nested struct; a map keyed by int between two scalars; a
\* map of ints between two scalars; a map beside a field whose key begins
\* like the map's; a time.Time and a float
LoadSchemas ==
  { << Fld("A", "string", Default(<<"v">>), <<>>),
       Fld("M", "map[string]string", NoTag, <<>>),
       Fld("N", "struct", NoTag, << Fld("A", "int", Default(<<"1", "0", "0">>), <<>>),
                                    Fld("B", "bool", Default(<<"t", "r", "u", "e">>), <<>>) >>) >>,
    << Fld("A", "int", Default(<<"1", "0", "0">>), <<>>),
       Fld("M", "map[int]string", NoTag, <<>>),
       Fld("B", "string", NoTag, <<>>) >>,
    << Fld("A", "int", NoTag, <<>>),
       Fld("M", "map[string]int", NoTag, <<>>),
       Fld("B", "string", NoTag, <<>>) >>,
    << Fld("M", "map[string]string", NoTag, <<>>),
       Fld("MX", "string", Default(<<"v">>), <<>>) >>,
    << Fld("T", "time.Time", NoTag, <<>>),
       Fld("A", "float32", Default(<<"2", ".", "5", "0">>), <<>>) >> }

\* what a filled store holds below the parent
Filled ==
  [k \in LoadBase |->
     CASE k \in {<<"a">>, Str("n", "a")} -> Present(<<"7">>)
       [] k \in {<<"b">>, Str("n", "b")} -> Present(<<"t", "r", "u", "e">>)
       [] k = <<"m", Slash, "k">> -> Present(<<"v", "1">>)
       [] k = <<"m", Slash, "l">> -> Present(<<"v", "2">>)
       [] OTHER -> Absent]

\* the empty store, and a store filled below the parent of one group
LoadStores ==
  { [key \in LoadKeys |-> Absent] } \cup
  { [key \in LoadKeys |->
       IF HasPrefix(key, getGroupName(LoadParent, g) \o <<Slash>>)
       THEN Filled[TrimPrefix(key, getGroupName(LoadParent, g) \o <<Slash>>)]
       ELSE Absent] : g \in Groups }

InitLoad ==
  /\ \E g \in Groups : env = [start |-> g, now |-> g]
  /\ watch = NoWatch
  /\ opts = [onlyPull |-> FALSE, disableListen |-> TRUE, logger |-> FALSE]
  /\ schema \in LoadSchemas
  /\ store \in LoadStores
  /\ pc = [p \in Procs |-> IF p = "fg" THEN "idle" ELSE "off"]
  /\ calls = 0
  /\ node = 0
  /\ content = <<>>
  /\ result = "none"
  /\ vals = [c \in 1..MaxCalls |-> <<>>]
  /\ list = <<>>
  /\ lock = "free"
  /\ idx = [p \in Procs |-> 0]
  /\ raw = [p \in Procs |-> <<>>]
  /\ cancelled = FALSE
  /\ crashed = FALSE
  /\ nExt = 0
  /\ nFail = 0
  /\ hist = NoHist

\* the store operations of one call that may fail
MaxOps == 3

\* client.LoadStruct(parent, &s) on a fresh struct: the whole call
LoadStruct ==
  /\ ~crashed
  /\ pc["fg"] = "idle"
  /\ calls < MaxCalls
  /\ \E failAt \in 0..MaxOps :
       LET r == recursiveLoadStruct(getGroupName(LoadParent, env.now), schema,
                  [st |-> store, log |-> <<>>, set |-> <<>>, err |-> "nil"], failAt)
       IN /\ failAt > 0 => (nFail < MaxFail /\ r.err = "store")
          /\ nFail' = IF failAt > 0 THEN nFail + 1 ELSE nFail
          /\ store' = r.st
          /\ vals' = [vals EXCEPT ![calls + 1] = r.set]
          /\ result' = IF r.err = "nil" THEN "nil" ELSE "err:" \o r.err
          /\ hist' = [hist EXCEPT
               !.log = @ \o [i \in 1..Len(r.log) |->
                               [op |-> r.log[i].op, call |-> calls + 1,
                                path |-> r.log[i].path, content |-> r.log[i].content]],
               !.returned = IF r.err = "nil" THEN @ \cup {calls + 1} ELSE @]
  /\ calls' = calls + 1
  /\ UNCHANGED <<env, watch, opts, schema, pc, node, content, list, lock, idx, raw, cancelled,
                 crashed, nExt>>

\* os.Setenv("GROUP_NAME", g) somewhere in the process
setenv ==
  /\ \E g \in Groups : g # env.now /\ env' = [env EXCEPT !.now = g]
  /\ UNCHANGED <<watch, opts, schema, store, pc, calls, node, content, result, vals, list,
                 lock, idx, raw, cancelled, crashed, nExt, nFail, hist>>

\* another client puts a value at a key of the map
storePut ==
  /\ nExt < MaxExt
  /\ \E g \in Groups :
       LET key == getGroupName(LoadParent, g) \o <<Slash, "m", Slash, "k">>
       IN /\ store' = kvPut(store, key, <<"v", "3">>)
          /\ hist' = [hist EXCEPT !.extKeys = @ \cup {key}]
  /\ nExt' = nExt + 1
  /\ UNCHANGED <<env, watch, opts, schema, pc, calls, node, content, result, vals, list, lock,
                 idx, raw, cancelled, crashed, nFail>>

NextLoad ==
  \/ LoadStruct
  \/ setenv
  \/ storePut

SpecLoad == InitLoad /\ [][NextLoad]_vars

(***************************************************************************)
(* Properties of LoadStruct, under SpecLoad.                               *)
(***************************************************************************)
\* the last LoadStruct call has returned nil and nobody wrote the store since
Loaded == calls > 0 /\ result = "nil" /\ hist.extKeys = {}

\* the pairs (suffix, value) of the stored keys P/suffix with a suffix
Under(P) ==
  { [k |-> TrimPrefix(key, P \o <<Slash>>), v |-> store[key].v] :
      key \in {x \in DOMAIN store : /\ store[x].there
                                    /\ HasPrefix(x, P \o <<Slash>>)
                                    /\ x # P \o <<Slash>>} }

\* C16: LoadStruct sets a string-to-string map field at path P to exactly
\* the pairs (suffix, value) of the stored keys P/suffix with a non-empty
\* suffix (r/m/k = v1 and r/m/l = v2 give {k: v1, l: v2}), and the scalar and
\* nested fields of the same struct hold their stored values after the call.
C16_MapAggregation ==
  Loaded =>
    \A i \in 1..Len(vals[calls]) :
      LET e == vals[calls][i]
      IN IF e.val.t = "map"
         THEN e.val.m = Under(e.path)
         ELSE store[e.path].there /\ e.val = typifyValue(e.val.t, store[e.path].v).val

\* the store operations of the last LoadStruct call
LastOps == SelectSeq(hist.log, LAMBDA e : e.call = calls)

\* the first field of the struct that is a map whose key or value type is
\* not string (0 if there is none)
BadMap ==
  LET bad == {j \in 1..Len(schema) :
                schema[j].kind \in MapKinds
                /\ (MapKey(schema[j].kind) # "string" \/ MapElem(schema[j].kind) # "string")}
  IN IF bad = {} THEN 0 ELSE CHOOSE j \in bad : \A k \in bad : j <= k

\* the paths of the fields declared before the j-th, under some group
PathsBefore(j) ==
  { getKeyPath(getGroupName(LoadParent, g), schema[i]) : g \in Groups, i \in 1..(j - 1) }

\* C17: when LoadStruct reaches a map field whose key or value type is not
\* string it returns an error, having issued no Get, Put or List for the
\* field's path and none for the fields declared after it, and having set
\* none of them; and a call that meets no other error before does reach it.
C17_InvalidMapShape ==
  /\ result \in {"err:mapkey", "err:mapvalue"} =>
       /\ BadMap > 0
       /\ \A i \in 1..Len(LastOps) : LastOps[i].path \in PathsBefore(BadMap)
       /\ \A i \in 1..Len(vals[calls]) : vals[calls][i].path \in PathsBefore(BadMap)
  /\ (BadMap > 0 /\ calls > 0) => result # "nil"

\* the call set the field before the map, wrote its key, and stopped
C17_Witness ==
  /\ result = "err:mapkey"
  /\ Len(vals[calls]) = 1
  /\ \E i \in 1..Len(LastOps) : LastOps[i].op = "put"
  /\ \A i \in 1..Len(LastOps) : LastOps[i].path \in PathsBefore(2)

\* the root path of the calls under the group name the process started with
StartRoot ==
  IF env.start # <<>> THEN Trim(env.start, Slash) \o <<Slash>> \o LoadParent
  ELSE LoadParent

\* C18: every key a LoadStruct call reads or writes lies under the group name
\* that was in the environment at startup, stripped of its leading and
\* trailing '/' and followed by '/'; with no group name the root path is used
\* as it is; a later change of the environment changes nothing.
C18_GroupPrefix ==
  \A i \in 1..Len(hist.log) : HasPrefix(hist.log[i].path, StartRoot)

(***************************************************************************)
(* client.WatchGet of the first client: a goroutine that polls one key     *)
(* with blocking queries and sends what it gets to a channel.  The caller  *)
(* receives from the channel whenever the goroutine sends.                 *)
(***************************************************************************)
WatchKey == <<"k">>

WatchValues == {<<"v">>, <<"w">>}

WatchRest == <<env, opts, schema, pc, calls, node, content, result, vals, list, lock, idx,
               raw, cancelled, nExt, hist>>

InitWatch ==
  /\ env = NoEnv
  /\ watch = NoWatch
  /\ opts = [onlyPull |-> FALSE, disableListen |-> TRUE, logger |-> FALSE]
  /\ schema = <<>>
  /\ store \in [{WatchKey} -> {Absent} \cup {Present(v) : v \in WatchValues}]
  /\ pc = [p \in Procs |-> IF p = "fg" THEN "idle" ELSE "off"]
  /\ calls = 0
  /\ node = 0
  /\ content = <<>>
  /\ result = "none"
  /\ vals = [c \in 1..MaxCalls |-> <<>>]
  /\ list = <<>>
  /\ lock = "free"
  /\ idx = [p \in Procs |-> 0]
  /\ raw = [p \in Procs |-> <<>>]
  /\ cancelled = FALSE
  /\ crashed = FALSE
  /\ nExt = 0
  /\ nFail = 0
  /\ hist = NoHist

\* client.Get(key) by the application: a found pair's meta goes to c.meta,
\* a missing pair is ErrKVNotFound.  The map is written without a lock: when
\* the goroutine is about to read or write it the runtime may abort the
\* process (concurrent map access).
clientGet ==
  /\ ~crashed
  /\ \/ /\ nFail < MaxFail
        /\ nFail' = nFail + 1
        /\ UNCHANGED <<watch, crashed>>
     \/ /\ ~store[WatchKey].there
        /\ UNCHANGED <<watch, crashed, nFail>>
     \/ /\ store[WatchKey].there
        /\ watch' = [watch EXCEPT !.meta = watch.index]
        /\ \E abort \in (IF watch.pc \in {"top", "check"} THEN BOOLEAN ELSE {FALSE}) :
             crashed' = abort
        /\ UNCHANGED nFail
  /\ UNCHANGED store
  /\ UNCHANGED WatchRest

\* client.Put(key, v) succeeds
clientPut ==
  /\ ~crashed
  /\ watch.index < NoWatch.index + MaxOps
  /\ \E v \in WatchValues :
       /\ store' = kvPut(store, WatchKey, v)
       /\ watch' = [watch EXCEPT !.index = @ + 1,
                                 !.put = IF watch.pc = "off" THEN @ ELSE @ \cup {v}]
  /\ UNCHANGED <<crashed, nFail>>
  /\ UNCHANGED WatchRest

\* somebody deletes the key from the store
kvDelete ==
  /\ ~crashed
  /\ watch.index < NoWatch.index + MaxOps
  /\ store[WatchKey].there
  /\ store' = [store EXCEPT ![WatchKey] = Absent]
  /\ watch' = [watch EXCEPT !.index = @ + 1]
  /\ UNCHANGED <<crashed, nFail>>
  /\ UNCHANGED WatchRest

\* WatchGet(key): make the channel, start the goroutine, return the channel
WatchGet ==
  /\ ~crashed
  /\ watch.pc = "off"
  /\ watch.ch = <<>>
  /\ watch' = [watch EXCEPT !.pc = "top", !.fresh = ~store[WatchKey].there, !.put = {}]
  /\ UNCHANGED <<store, crashed, nFail>>
  /\ UNCHANGED WatchRest

\* the goroutine, top of the loop: lastIndex is 1, or the LastIndex of c.meta[key]
watchTop ==
  /\ ~crashed
  /\ watch.pc = "top"
  /\ watch' = [watch EXCEPT !.pc = "get",
                            !.last = IF watch.meta # 0 THEN watch.meta ELSE 1]
  /\ UNCHANGED <<store, crashed, nFail>>
  /\ UNCHANGED WatchRest

\* the goroutine: c.kv.Get(k, WaitIndex: lastIndex) returns, with an error, or
\* because the store's index is past lastIndex, or because the wait timed out
watchGet ==
  /\ ~crashed
  /\ watch.pc = "get"
  /\ \/ /\ nFail < MaxFail
        /\ nFail' = nFail + 1
        /\ watch' = [watch EXCEPT !.pc = "check", !.kv = Absent, !.qmeta = 0, !.err = TRUE]
     \/ /\ \E timeout \in BOOLEAN : timeout \/ watch.index > watch.last
        /\ watch' = [watch EXCEPT !.pc = "check", !.kv = store[WatchKey],
                                  !.qmeta = watch.index, !.err = FALSE]
        /\ UNCHANGED nFail
  /\ UNCHANGED <<store, crashed>>
  /\ UNCHANGED WatchRest

\* the goroutine: continue on a nil pair while lastIndex is 1; else close the
\* channel on an error, and store meta in c.meta
watchCheck ==
  /\ ~crashed
  /\ watch.pc = "check"
  /\ IF watch.last = 1 /\ ~watch.kv.there
     THEN watch' = [watch EXCEPT !.pc = "top"]
     ELSE watch' = [watch EXCEPT !.pc = "send",
                                 !.closed = @ \/ watch.err,
                                 !.meta = watch.qmeta]
  /\ UNCHANGED <<store, crashed, nFail>>
  /\ UNCHANGED WatchRest

\* the goroutine: ch <- kv; a send on the closed channel panics
watchSend ==
  /\ ~crashed
  /\ watch.pc = "send"
  /\ IF watch.closed
     THEN /\ crashed' = TRUE
          /\ watch' = [watch EXCEPT !.pc = "off"]
     ELSE /\ Len(watch.ch) < MaxOps
          /\ watch' = [watch EXCEPT !.pc = "top", !.ch = Append(@, watch.kv)]
          /\ UNCHANGED crashed
  /\ UNCHANGED <<store, nFail>>
  /\ UNCHANGED WatchRest

NextWatch ==
  \/ clientGet
  \/ clientPut
  \/ kvDelete
  \/ WatchGet
  \/ watchTop
  \/ watchGet
  \/ watchCheck
  \/ watchSend

SpecWatch == InitWatch /\ [][NextWatch]_vars

\* C20: WatchGet on a key that is absent from the store delivers nothing while
\* the key stays absent, and the first pair the caller receives from the
\* channel is not nil and carries a value that was Put after the call.
C20_WatchGetDelivery ==
  (watch.fresh /\ watch.ch # <<>>) =>
    (watch.ch[1].there /\ watch.ch[1].v \in watch.put)

(***************************************************************************)
(* Properties of the watch list, its lock and the refresh passes.          *)
(***************************************************************************)
\* C21: the watch lock is held only for the append and for the snapshot of
\* the list; the Get and the Update of a pass run with the lock released, so
\* a registration never waits for a store call of a running pass.
C21_LockScope ==
  \A p \in Procs : pc[p] \in {"pget", "pupd"} => lock # p

\* the items the running call has registered
Registered == {i \in 1..Len(list) : list[i].inst = calls}

\* C22: within a PullOrPush call the WatchItem of a field is appended only
\* after the field was assigned its parsed value: the list never holds an
\* item whose field the registering call has not assigned yet.
C22_RegisterAfterAssign ==
  \A i \in Registered :
    ~(pc["fg"] = "parse" /\ list[i].node = node)

\* C23: a struct-shaped destination that is not a registered well-known type,
\* the root included, causes no store traffic of its own: PullOrPush issues
\* neither a Get nor a Put at its path.
C23_NoTrafficAtStructs ==
  \A i \in 1..Len(hist.log) :
    dispatch(Nodes[hist.log[i].node].kind) # "struct"

(***************************************************************************)
(* SpecList: Spec with calls of Client.Watch.  The application registers   *)
(* a cell of a struct that an earlier call filled, under the key of        *)
(* another field.                                                          *)
(***************************************************************************)
MaxWatch == 1

\* the items Client.Watch appended: their path is not their field's own
ByWatch(item) == item.path # Nodes[item.node].path

\* Client.Watch(path, out): registerWatch appends under the lock, whatever
\* the options of the client are
Watch ==
  /\ ~crashed
  /\ Lock(lock)
  /\ Len(SelectSeq(list, ByWatch)) < MaxWatch
  /\ \E c \in hist.returned, nd \in 1..Len(Nodes), k \in LeafKeys :
       /\ Nodes[nd].kind \in WatchableKinds
       /\ k # Nodes[nd].path
       /\ list' = registerWatch(list, k, c, nd, Nodes[nd].kind)
  /\ hist' = [hist EXCEPT !.nreg = @ + 1,
                          !.appended = @ \o SubSeq(list', Len(list) + 1, Len(list'))]
  /\ UNCHANGED <<env, watch, opts, schema, store, pc, calls, node, content, result, vals,
                 lock, idx, raw, cancelled, crashed, nExt, nFail>>

\* NewClient(SetLogger(l)), and with DisableWatch
ListOptions ==
  { [onlyPull |-> FALSE, disableListen |-> FALSE, logger |-> TRUE],
    [onlyPull |-> FALSE, disableListen |-> TRUE, logger |-> TRUE] }

InitList == InitOver(ListOptions, UNION { {<<s, st>> : st \in PlainStore(Walk(s))} : s \in WatchSchemas })

NextList ==
  \/ PullOrPush
  \/ pullGet
  \/ pullPut
  \/ pullRegister
  \/ pullParse
  \/ \E p \in Procs : passLock(p)
  \/ \E p \in Procs : passGet(p)
  \/ \E p \in Procs : passUpdate(p)
  \/ \E p \in Procs : passUnlock(p)
  \/ timerTick
  \/ ctxDone
  \/ Stop
  \/ Watch

SpecList == InitList /\ [][NextList]_vars

\* the Updatable leaf fields of the struct
Updatables == {nd \in 1..Len(Nodes) : Nodes[nd].kind \in WatchableKinds}

\* the items the PullOrPush calls appended, in the order of the list
SyncItems == SelectSeq(list, LAMBDA item : ~ByWatch(item))

\* C24, as amended: the list is every item ever appended, in the order of the
\* appends (nothing is removed, replaced or reordered, by a call, by Watch,
\* by a pass, by a failing item or by Stop); the items of the PullOrPush
\* calls come call by call and, within a call, at most one per Updatable leaf
\* in declared order; a client with the watch disabled appends none; with
\* the watch enabled a call that returned nil has appended one per Updatable
\* leaf, so after n calls that all returned nil there are n*k of them.
C24_AppendOnly ==
  LET items == SyncItems
      n     == Len(items)
  IN /\ list = hist.appended
     /\ \A i \in 1..n : \A j \in (i + 1)..n :
          \/ items[i].inst < items[j].inst
          \/ /\ items[i].inst = items[j].inst
             /\ items[i].node < items[j].node
     /\ \A i \in 1..n : items[i].node \in Updatables
     /\ opts.disableListen => items = <<>>
     /\ ~opts.disableListen =>
          \A c \in hist.returned, nd \in Updatables :
            \E i \in 1..n : items[i].inst = c /\ items[i].node = nd
     /\ (~opts.disableListen /\ pc["fg"] = "idle" /\ hist.returned = 1..calls) =>
          n = calls * Cardinality(Updatables)

\* two calls returned nil on a struct with two Updatable leaves, Watch added
\* a fifth item, a store call of a pass failed and Stop was called
C24_Witness ==
  /\ ~opts.disableListen
  /\ pc["fg"] = "idle"
  /\ hist.returned = {1, 2}
  /\ Cardinality(Updatables) = 2
  /\ Len(SyncItems) = 4
  /\ Len(list) = 5
  /\ nFail > 0
  /\ cancelled

\* C24 as stated: after n successful PullOrPush calls, and nothing else that
\* registers, the list holds exactly n*k items
C24_ExactlyNK ==
  (pc["fg"] = "idle" /\ hist.returned = 1..calls /\ SyncItems = list) =>
    Len(list) = calls * Cardinality(Updatables)

(***************************************************************************)
(* Properties of failing calls and failing passes.                         *)
(***************************************************************************)
\* C25: when PullOrPush fails at a field because the field's kind is not
\* supported or because the content cannot be coerced to the field's type,
\* the call has written nothing at that field's path.  (The failing field is
\* the one of the call's last store operation.)
C25_FailureWritesNothing ==
  (result \in {"err:parse", "err:unsupported", "err:custom"} /\ hist.log # <<>>) =>
    hist.log[Len(hist.log)].op # "put"

\* C26: on a client created without a logger option a failed Get or a failed
\* Update of a refresh pass does not crash the process.
C26_NoLoggerNoCrash ==
  ~opts.logger => ~(crashed /\ \E p \in Procs : hist.failed[p] # {})

\* C27: once a refresh pass has stored into a cell what it read from the
\* store, a PullOrPush call running beside it never assigns the cell a value
\* parsed from content the call had read before the pass read: the value of
\* a cell never moves back to an older value of the store.
C27_NoStaleOverwrite == hist.stale = {}

\* the goroutine is inside updateWatch, between Lock and Unlock
InPass(p) == pc[p] \in {"pget", "pupd", "unlock"}

\* C28: at most one refresh pass is in progress at any time: the pass of the
\* loop and the pass at the end of a PullOrPush call never interleave their
\* Get and Update steps (the goroutine in a pass holds the lock), and no
\* WatchItem is appended while a pass is in progress.
C28_ExclusivePasses ==
  /\ ~(InPass("fg") /\ InPass("bg"))
  /\ \A p \in Procs : InPass(p) => (lock = p /\ Len(list) = hist.len[p])

\* the loop is in the middle of a pass and the caller waits for the lock,
\* for its own pass or to register an item
C28_Witness ==
  /\ pc["bg"] = "pupd"
  /\ pc["fg"] \in {"lock", "reg"}
  /\ idx["bg"] > 1

(***************************************************************************)
(* SpecCells: the client with its loop and the external writer, over       *)
(* structs of watched cells of every kind.                                 *)
(***************************************************************************)
CellSchemas == { Struct(<<"Int", "Duration">>), Struct(<<"Toml", "String">>) }

\* NewClient(SetLogger(l))
CellOptions == { [onlyPull |-> FALSE, disableListen |-> FALSE, logger |-> TRUE] }

InitCells == InitOver(CellOptions, UNION { {<<s, st>> : st \in PlainStore(Walk(s))} : s \in CellSchemas })

\* the calls, the passes of both goroutines and the external writer; nobody
\* calls Stop
NextCells ==
  \/ PullOrPush
  \/ pullGet
  \/ pullPut
  \/ pullRegister
  \/ pullParse
  \/ \E p \in Procs : passLock(p)
  \/ \E p \in Procs : passGet(p)
  \/ \E p \in Procs : passUpdate(p)
  \/ \E p \in Procs : passUnlock(p)
  \/ timerTick
  \/ externalWrite

SpecCells == InitCells /\ [][NextCells]_vars

\* whether the raw bytes are a value of the cell's type, and the value
Accepts(kind, bytes) ==
  CASE kind = "Int" -> Atoi(bytes).ok
    [] kind = "Duration" -> ParseDuration(bytes).ok
    [] kind = "Toml" -> LoadBytes(bytes).ok
    [] kind = "String" -> TRUE

Stored(kind, bytes) ==
  CASE kind = "Int" -> Val("Int", Atoi(bytes).n, <<>>, 0)
    [] kind = "Duration" -> Val("Duration", ParseDuration(bytes).n, <<>>, 0)
    [] kind = "Toml" -> Val("Toml", LoadBytes(bytes).n, LoadBytes(bytes).keys, 1)
    [] kind = "String" -> Val("String", 0, bytes, 0)

\* the contents a key of the model can hold
CellContents ==
  ExtContents \cup {Sample(k) : k \in WatchableKinds}
  \cup {makeTagOpts(Nodes[i].tag).Default : i \in 1..Len(Nodes)}

\* every cell reads the zero value of its type or a value of its type that
\* an Update accepted
CellsSound ==
  \A c \in 1..MaxCalls, nd \in Updatables :
    \/ vals[c][nd] = Zero(Nodes[nd].kind)
    \/ \E b \in CellContents :
         Accepts(Nodes[nd].kind, b) /\ vals[c][nd] = Stored(Nodes[nd].kind, b)

\* a pass finishes the Update of its item
UpdateStep(p) == pc[p] = "pupd" /\ pc'[p] # "pupd"

\* C29: an Update on a Duration, Int or Toml cell that cannot parse the raw
\* bytes (the empty bytes of a deleted key included) returns an error, which
\* the pass logs, and the cell keeps its previous value; an Update that can
\* parse them stores the parsed value; so a cell always reads the zero value
\* of its type or the result of a successful Update.
C29_FailedUpdateKeeps ==
  /\ []CellsSound
  /\ [][\A p \in Procs : UpdateStep(p) =>
          LET item == list[idx[p]]
              kind == Nodes[item.node].kind
          IN /\ vals'[item.inst][item.node] =
                  IF Accepts(kind, raw[p]) THEN Stored(kind, raw[p])
                  ELSE vals[item.inst][item.node]
             /\ ~Accepts(kind, raw[p]) => idx[p] \in hist'.sunk[p]]_vars

\* a pass has failed to update an Int cell from the empty bytes, or a Toml
\* cell from bytes that are no document, and the cell still reads its value
C29_Witness ==
  \E p \in Procs : \E i \in hist.failed[p] :
    /\ CellKind(i) \in {"Int", "Toml"}
    /\ CellKind(i) = "Int" => kvGet(store, list[i].path) = <<>>
    /\ ~Accepts(CellKind(i), kvGet(store, list[i].path))
    /\ Cell(i) # Zero(CellKind(i))
    /\ i \notin hist.missed[p]

\* the calls that have returned an error
Erred == {c \in 1..calls : c \notin hist.returned /\ (c < calls \/ pc["fg"] = "idle")}

\* C30: a PullOrPush call that returns nil has run exactly one refresh pass,
\* over the whole watch list (the items of earlier calls included), before
\* it returned; a call that returns an error has run none.
C30_ForcedRefresh ==
  ~crashed =>
    /\ \A c \in hist.returned : hist.npass[c] = 1 /\ c \in hist.covered
    /\ \A c \in Erred : hist.npass[c] = 0

\* the first call failed after it had registered an item, the second
\* returned nil: its pass went over three items
C30_Witness ==
  /\ ~crashed
  /\ Erred = {1}
  /\ hist.returned = {2}
  /\ Len(list) = 3

(***************************************************************************)
(* Properties of the map fields of LoadStruct, under SpecLoad.             *)
(***************************************************************************)
\* the placeholder Puts of a call: Puts at a path that ends with "/"
Placeholders(c) ==
  {hist.log[i].path : i \in {j \in 1..Len(hist.log) :
      /\ hist.log[j].call = c
      /\ hist.log[j].op = "put"
      /\ hist.log[j].path[Len(hist.log[j].path)] = Slash}}

\* C31: once a LoadStruct call has written the empty placeholder of a map
\* field at path + "/", a later LoadStruct call on the same struct type and
\* root path issues no Put for that map field.
C31_PlaceholderOnce ==
  \A c1, c2 \in hist.returned :
    c1 < c2 => Placeholders(c1) \cap Placeholders(c2) = {}

\* C32: the map LoadStruct builds for a map field at path P has entries only
\* for store keys P + "/" + suffix: each entry's key is the suffix of such a
\* key and its value that key's value; a key that only begins with P as a
\* string gives no entry, and neither does the placeholder P + "/".
C32_MapIsolation ==
  \A c \in hist.returned : \A i \in 1..Len(vals[c]) :
    vals[c][i].val.t = "map" =>
      \A e \in vals[c][i].val.m :
        LET key == vals[c][i].path \o <<Slash>> \o e.k
        IN /\ e.k # <<>>
           /\ key \in DOMAIN store
           /\ store[key].there
           /\ store[key].v = e.v

(***************************************************************************)
(* Properties of the end of the runWatch goroutine.                        *)
(***************************************************************************)
\* the runWatch goroutine is over: it returned from its select, or a panic
\* of its pass unwound it (the deferred timer.Stop runs in both cases)
LoopOver == pc["bg"] = "exited" \/ (crashed /\ result # "panic" /\ pc["bg"] \in {"pget", "pupd"})

\* C33: the background loop ends only after Stop: whatever failures its
\* passes meet, the runWatch goroutine is not over while Stop has not been
\* called (after Stop it ends once the pass in progress is through, which is
\* the liveness half, C33_ExitsAfterStop).
C33_ExitsOnlyAfterStop == LoopOver => cancelled

\* runWatch resets its timer before each select, so a loop that comes back to
\* its select with the context done finds ctx.Done() ready; the select takes
\* that case in the end, however often the timer case was taken before
StopFairness == SF_vars(ctxDone)

SpecStop == SpecLive /\ StopFairness

\* the liveness half of C33, which holds under SpecStop (a client with a
\* logger): once Stop was called the goroutine is eventually over, when the
\* steps of the pass in progress return
C33_ExitsAfterStop == cancelled ~> LoopOver

====
